---- MODULE Spec2Model ----
(***************************************************************************)
(* Two-pass recipe extraction pipeline of recipe_board:                    *)
(*   Pass 1  parse_recipe          (agents/entity_workflow.py)             *)
(*   Pass 2  parse_dependencies    (agents/parsing_agent.py)               *)
(*   UI flow combined_parse_function / retry_dependency_parsing            *)
(*           (gradio_ui.py)                                                *)
(* The language model, the agent runtime and the spaCy model are the       *)
(* environment: every outcome they can produce is a nondeterministic       *)
(* choice of the actions below.                                            *)
(***************************************************************************)
EXTENDS Integers, Sequences, FiniteSets, TLC

VARIABLES session, pc, recipe_text, ui, uuid_counter, call

vars == <<session, pc, recipe_text, ui, uuid_counter, call>>

(***************************************************************************)
(* Bounds of the model.                                                    *)
(***************************************************************************)
\* longest "actions" array the agent returns
MaxAgentActions == 2
\* longest "ingredients" array the model returns in Pass 1
MaxItems == 2
\* number of clicks on the parse button in one behaviour of the UI flow
MaxClicks == 3

\* longest response, in tokens, given to the response cleaner
MaxTokens == 5

\* longest recipe text, in spaCy tokens, given to the sentence context builder
MaxDocTokens == 6

(***************************************************************************)
(* ParsingState (core/state.py)                                            *)
(***************************************************************************)
INITIAL == "initial"
PARSING_RECIPE == "parsing_recipe"
PARSING_DEPENDENCIES == "parsing_dependencies"
COMPLETED == "completed"
ERROR == "error"
DEPENDENCIES_ERROR == "dependencies_error"

ParsingState == {INITIAL, PARSING_RECIPE, PARSING_DEPENDENCIES, COMPLETED, ERROR, DEPENDENCIES_ERROR}

(***************************************************************************)
(* Decoded JSON values, tagged with their Python type.  "absent" stands    *)
(* for a key that the dict does not have.                                  *)
(***************************************************************************)
Absent == [t |-> "absent", v |-> 0]
JNull == [t |-> "null", v |-> 0]
JStr(s) == [t |-> "str", v |-> s]
JNum(n) == [t |-> "num", v |-> n]
JBool(b) == [t |-> "bool", v |-> b]
JList(l) == [t |-> "list", v |-> l]
JObj(o) == [t |-> "dict", v |-> o]

\* dict.get(key, default)
Get(d, key, default) == IF d[key].t = "absent" THEN default ELSE d[key]

\* sequences over S of length at most n
SeqUpTo(S, n) == UNION {[1..k -> S] : k \in 0..n}

\* mutant: the id is a fixed value instead of a fresh draw
uuid_fixed(n) == "u0"

\* uuid.uuid4() as the n-th draw of the process: fresh, never repeated
Uuid(n) == "u" \o ToString(n)

(***************************************************************************)
(* RecipeSessionState (core/state.py)                                      *)
(***************************************************************************)
RecipeSessionState == [raw_text |-> "", ingredients |-> <<>>, equipment |-> <<>>, basic_actions |-> <<>>, actions |-> <<>>, parsing_state |-> INITIAL]

\* mutant: has_parsed_data accepts ingredients or equipment
has_parsed_data_either(s) == Len(s.ingredients) > 0 \/ Len(s.equipment) > 0

\* RecipeSessionState.has_parsed_data
has_parsed_data(s) == Len(s.ingredients) > 0 /\ Len(s.equipment) > 0

\* RecipeSessionState.clear
clear(s) == RecipeSessionState

(***************************************************************************)
(* Domain objects (core/recipe.py).  pydantic validates the field types;   *)
(* a str field accepts only a str, Optional[...] also accepts None.        *)
(***************************************************************************)
Ingredient(id, name, amount, unit, modifiers, raw_text) == [id |-> id, name |-> name, amount |-> amount, unit |-> unit, modifiers |-> modifiers, raw_text |-> raw_text]

Equipment(id, name, required, modifiers) == [id |-> id, name |-> name, required |-> required, modifiers |-> modifiers]

BasicAction(verb, sentence, sentence_index) == [verb |-> verb, sentence |-> sentence, sentence_index |-> sentence_index]

Action(id, name, ingredient_ids, equipment_id) == [id |-> id, name |-> name, ingredient_ids |-> ingredient_ids, equipment_id |-> equipment_id]

\* Action(...) raises ValidationError unless name: str, ingredient_ids: list[str], equipment_id: str
ActionValidates(name, ingredient_ids, equipment_id) ==
    /\ name.t = "str"
    /\ ingredient_ids.t = "list"
    /\ \A i \in 1..Len(ingredient_ids.v) : ingredient_ids.v[i].t = "str"
    /\ equipment_id.t = "str"

(***************************************************************************)
(* Pass 2: parse_dependencies (agents/parsing_agent.py)                    *)
(***************************************************************************)
\* What the agent runtime hands back from parsing_agent.run: its Python type
\* (shape), for the two textual shapes what re.search(r"\{.*\}") and json.loads
\* make of the text, and the decoded object.
AgentResult(shape, text, parsed) == [shape |-> shape, text |-> text, parsed |-> parsed]

\* Python's "for action_item in actions_data": a list yields its items, a str
\* its characters, a dict its keys (all str); None, numbers and bools raise TypeError.
IterRaises(data) == data.t \in {"null", "num", "bool"}

IterItems(data) ==
    CASE data.t = "list" -> data.v
      [] data.t = "str" -> [i \in 1..Len(data.v) |-> JStr("c")]
      [] data.t = "dict" -> <<JStr("key")>>
      [] OTHER -> <<>>

\* lines 213-262: the branch on the result's type. raised: the branch threw.
extract_actions_data(result) ==
    CASE result.shape = "dict" ->
           [raised |-> FALSE, data |-> Get(result.parsed, "actions", JList(<<>>))]
      [] result.shape = "RunResult" ->
           IF result.text = "no_json" THEN [raised |-> FALSE, data |-> JList(<<>>)]
           ELSE IF result.text = "invalid_json" THEN [raised |-> TRUE, data |-> JList(<<>>)]
           ELSE [raised |-> FALSE, data |-> Get(result.parsed, "actions", JList(<<>>))]
      [] result.shape = "AgentText" ->
           IF result.text = "no_json" THEN [raised |-> FALSE, data |-> JList(<<>>)]
           ELSE IF result.text = "invalid_json" THEN [raised |-> FALSE, data |-> JList(<<>>)]
           ELSE LET d == Get(result.parsed, "actions", JList(<<>>))
                IN  [raised |-> IterRaises(d), data |-> d]
      [] OTHER -> [raised |-> FALSE, data |-> JList(<<>>)]

\* lines 264-280: one Action per dict item that validates, in order; n counts
\* the uuid4 draws made so far.
RECURSIVE convert_actions(_, _, _)
convert_actions(items, acc, n) ==
    IF items = <<>> THEN acc
    ELSE LET item == Head(items)
             name == Get(item.v, "name", JStr(""))
             ingredient_ids == Get(item.v, "ingredient_ids", JList(<<>>))
             equipment_id == Get(item.v, "equipment_id", JStr(""))
         IN  IF item.t # "dict" THEN convert_actions(Tail(items), acc, n)
             ELSE IF ActionValidates(name, ingredient_ids, equipment_id)
                  THEN convert_actions(Tail(items),
                         Append(acc, Action(Uuid(n + 1), name.v,
                                            [i \in 1..Len(ingredient_ids.v) |-> ingredient_ids.v[i].v],
                                            equipment_id.v)),
                         n + 1)
                  ELSE convert_actions(Tail(items), acc, n)

\* mutant: the guard demands ingredients and equipment, as has_parsed_data does
can_link_both(state) == state.ingredients # <<>> /\ state.equipment # <<>> /\ state.basic_actions # <<>>

\* lines 111-117: the precondition of linking
can_link(state) == ~(state.ingredients = <<>> /\ state.equipment = <<>>) /\ state.basic_actions # <<>>

\* mutant: the new actions are appended to the stored ones
run_agent_appends(state, env, n) ==
    LET running == [state EXCEPT !.parsing_state = PARSING_DEPENDENCIES]
        failed == [raised |-> "none", state |-> [running EXCEPT !.parsing_state = ERROR], agent |-> TRUE]
        got == extract_actions_data(env.result)
    IN  IF env.kind = "run_throws" THEN failed
        ELSE IF got.raised \/ IterRaises(got.data) THEN failed
        ELSE [raised |-> "none",
              state |-> [running EXCEPT !.actions = convert_actions(IterItems(got.data), state.actions, n),
                                        !.parsing_state = COMPLETED],
              agent |-> TRUE]

\* mutant: state.actions is reset before the run instead of assigned after it
run_agent_resets_first(state, env, n) ==
    LET running == [state EXCEPT !.parsing_state = PARSING_DEPENDENCIES, !.actions = <<>>]
        failed == [raised |-> "none", state |-> [running EXCEPT !.parsing_state = ERROR], agent |-> TRUE]
        got == extract_actions_data(env.result)
    IN  IF env.kind = "run_throws" THEN failed
        ELSE IF got.raised \/ IterRaises(got.data) THEN failed
        ELSE [raised |-> "none",
              state |-> [running EXCEPT !.actions = convert_actions(IterItems(got.data), <<>>, n),
                                        !.parsing_state = COMPLETED],
              agent |-> TRUE]

\* lines 200-289: the agent run and the processing of its result
run_agent(state, env, n) ==
    LET running == [state EXCEPT !.parsing_state = PARSING_DEPENDENCIES]
        failed == [raised |-> "none", state |-> [running EXCEPT !.parsing_state = ERROR], agent |-> TRUE]
        got == extract_actions_data(env.result)
    IN  IF env.kind = "run_throws" THEN failed
        ELSE IF got.raised \/ IterRaises(got.data) THEN failed
        ELSE [raised |-> "none",
              state |-> [running EXCEPT !.actions = convert_actions(IterItems(got.data), <<>>, n),
                                        !.parsing_state = COMPLETED],
              agent |-> TRUE]

\* mutant: a failed agent construction is swallowed like a failed run
parse_dependencies_swallows(state, env, n) ==
    IF ~can_link(state) THEN [raised |-> "none", state |-> state, agent |-> FALSE]
    ELSE IF env.kind = "construct_fails"
         THEN [raised |-> "none", state |-> [state EXCEPT !.parsing_state = ERROR], agent |-> FALSE]
    ELSE IF env.kind = "context_fails" THEN [raised |-> "OSError", state |-> state, agent |-> TRUE]
    ELSE run_agent(state, env, n)

\* parse_dependencies(state) under the environment's behaviour env.
\* raised: "none" when it returns; agent: whether the agent was constructed.
parse_dependencies(state, env, n) ==
    IF ~can_link(state) THEN [raised |-> "none", state |-> state, agent |-> FALSE]
    ELSE IF env.kind = "construct_fails" THEN [raised |-> "ValueError", state |-> state, agent |-> FALSE]
    ELSE IF env.kind = "context_fails" THEN [raised |-> "OSError", state |-> state, agent |-> TRUE]
    ELSE run_agent(state, env, n)

(***************************************************************************)
(* The environment of Pass 2: what agent construction, the spaCy sentence  *)
(* segmentation and parsing_agent.run can do.                              *)
(***************************************************************************)
ActionItem(name, ingredient_ids, equipment_id) == JObj([name |-> name, ingredient_ids |-> ingredient_ids, equipment_id |-> equipment_id])

ItemIngredientIds == {Absent, JList(<<>>), JList(<<JStr("u1")>>)}

ItemEquipmentIds == {Absent, JNull, JStr(""), JStr("u2")}

\* entries of an "actions" array: a non-dict, and dicts with every combination of
\* ingredient_ids and equipment_id, or with a null name
AgentActionItems ==
    {JStr("stir")}
    \cup {ActionItem(JStr("mix"), i, e) : i \in ItemIngredientIds, e \in ItemEquipmentIds}
    \cup {ActionItem(JNull, JList(<<JStr("u1")>>), JStr("u2"))}

\* values of the "actions" key
ActionsValues ==
    {Absent, JNull, JNum(5), JStr("ab"), JObj([name |-> JStr("mix")])}
    \cup {JList(l) : l \in SeqUpTo(AgentActionItems, MaxAgentActions)}

NoParsed == [actions |-> Absent]

AgentResults ==
    {AgentResult("dict", "-", [actions |-> a]) : a \in ActionsValues}
    \cup {AgentResult(sh, "json", [actions |-> a]) : sh \in {"RunResult", "AgentText"}, a \in ActionsValues}
    \cup {AgentResult(sh, tx, NoParsed) : sh \in {"RunResult", "AgentText"}, tx \in {"no_json", "invalid_json"}}
    \cup {AgentResult("other", "-", NoParsed)}

AgentEnv(kind, result) == [kind |-> kind, result |-> result]

AgentOutcomes ==
    {AgentEnv(k, AgentResult("other", "-", NoParsed)) : k \in {"construct_fails", "context_fails", "run_throws"}}
    \cup {AgentEnv("result", r) : r \in AgentResults}

(***************************************************************************)
(* Sessions a caller can pass to parse_dependencies.                       *)
(***************************************************************************)
Flour == Ingredient("u1", "flour", JNum(2), JStr("cups"), <<>>, "2 cups flour")

Bowl == Equipment("u2", "mixing bowl", TRUE, JStr("large"))

Mix == BasicAction("mix", "Mix the flour in a large mixing bowl.", 0)

PriorAction == Action("u3", "whisk", <<"u1">>, "u2")

Pass2Sessions ==
    {[raw_text |-> "Mix the flour in a large mixing bowl.", ingredients |-> i, equipment |-> e,
      basic_actions |-> b, actions |-> a, parsing_state |-> p] :
        i \in {<<>>, <<Flour>>}, e \in {<<>>, <<Bowl>>}, b \in {<<>>, <<Mix>>},
        a \in {<<>>, <<PriorAction>>}, p \in {INITIAL, PARSING_DEPENDENCIES, ERROR}}

UiIdle == [button_text |-> "Parse Recipe", parse_interactive |-> TRUE, visualize_interactive |-> FALSE, insights_interactive |-> FALSE]

NoCall == [op |-> "none", pre |-> RecipeSessionState, env |-> AgentEnv("result", AgentResult("other", "-", NoParsed)), raised |-> "none", agent |-> FALSE]

InitPass2 ==
    /\ session \in Pass2Sessions
    /\ pc = "api"
    /\ recipe_text = ""
    /\ ui = UiIdle
    /\ uuid_counter = 3
    /\ call = NoCall

\* a direct call parse_dependencies(session); an exception leaves the caller's
\* object as the call left it
CallParseDependencies ==
    /\ pc = "api"
    /\ call.op = "none"
    /\ \E env \in AgentOutcomes :
         LET r == parse_dependencies(session, env, uuid_counter)
         IN  /\ session' = r.state
             /\ call' = [op |-> "parse_dependencies", pre |-> session, env |-> env, raised |-> r.raised, agent |-> r.agent]
             /\ uuid_counter' = uuid_counter + (IF r.state.actions = session.actions THEN 0 ELSE Len(r.state.actions))
    /\ UNCHANGED <<pc, recipe_text, ui>>

NextPass2 == CallParseDependencies

SpecPass2 == InitPass2 /\ [][NextPass2]_vars

(***************************************************************************)
(* Properties of parse_dependencies, over SpecPass2.                       *)
(***************************************************************************)
Called == call.op = "parse_dependencies"

\* the precondition as the specification words it
Linkable(s) == Len(s.basic_actions) > 0 /\ (Len(s.ingredients) > 0 \/ Len(s.equipment) > 0)

\* the result is one of the three accepted shapes and carries a JSON object
CarriesObject(r) == r.shape = "dict" \/ (r.shape \in {"RunResult", "AgentText"} /\ r.text = "json")

\* ... whose "actions" value is an array
CarriesActionsArray(r) == CarriesObject(r) /\ r.parsed.actions.t = "list"

\* no valid actions array can be extracted from the result
Unparseable(r) ==
    \/ r.shape \in {"RunResult", "AgentText"} /\ r.text \in {"no_json", "invalid_json"}
    \/ CarriesObject(r) /\ r.parsed.actions.t \notin {"list", "absent"}

\* C3: after Pass 2 completes, every Action of the session has an ingredient id
\* or an equipment_id that is neither None nor "".
C3_ActionInvariant ==
    (Called /\ call.raised = "none" /\ call.agent /\ session.parsing_state = COMPLETED)
        => \A k \in 1..Len(session.actions) :
               Len(session.actions[k].ingredient_ids) > 0 \/ session.actions[k].equipment_id # ""

\* C6: an unparseable result of any of the three shapes ends the call without
\* an exception, with session.actions = [] and no error state.
C6_UnparseableYieldsNoActions ==
    (Called /\ Linkable(call.pre) /\ call.env.kind = "result" /\ Unparseable(call.env.result))
        => /\ call.raised = "none"
           /\ session.actions = <<>>
           /\ session.parsing_state \notin {ERROR, DEPENDENCIES_ERROR}

WellFormedEntry(item) ==
    /\ item.t = "dict"
    /\ item.v.name.t \in {"absent", "str"}
    /\ item.v.ingredient_ids.t \in {"absent", "list"}
    /\ item.v.ingredient_ids.t = "list" => \A i \in 1..Len(item.v.ingredient_ids.v) : item.v.ingredient_ids.v[i].t = "str"
    /\ item.v.equipment_id.t \in {"absent", "str"}

\* the Action a is the conversion of the entry item
ConvertedFrom(a, item) ==
    /\ a.name = (IF item.v.name.t = "absent" THEN "" ELSE item.v.name.v)
    /\ Len(a.ingredient_ids) = (IF item.v.ingredient_ids.t = "absent" THEN 0 ELSE Len(item.v.ingredient_ids.v))
    /\ \A i \in 1..Len(a.ingredient_ids) : a.ingredient_ids[i] = item.v.ingredient_ids.v[i].v
    /\ a.equipment_id = (IF item.v.equipment_id.t = "absent" THEN "" ELSE item.v.equipment_id.v)

\* C8: after a successful run whose result carries the actions array,
\* session.actions is the conversion of this run's well-formed entries, in order,
\* with nothing of the earlier actions left, and the state is COMPLETED.
C8_ActionsReplacedWholesale ==
    (Called /\ Linkable(call.pre) /\ call.env.kind = "result" /\ CarriesActionsArray(call.env.result))
        => LET entries == SelectSeq(call.env.result.parsed.actions.v, WellFormedEntry)
           IN  /\ call.raised = "none"
               /\ session.parsing_state = COMPLETED
               /\ Len(session.actions) = Len(entries)
               /\ \A k \in 1..Len(entries) : ConvertedFrom(session.actions[k], entries[k])
               /\ \A k \in 1..Len(session.actions) : \A j \in 1..Len(call.pre.actions) :
                      session.actions[k].id # call.pre.actions[j].id
               /\ \A k, j \in 1..Len(session.actions) : k # j => session.actions[k].id # session.actions[j].id

C8_Witness ==
    /\ Called /\ call.pre.actions = <<PriorAction>>
    /\ call.env.result.shape = "AgentText" /\ CarriesActionsArray(call.env.result)
    /\ Len(call.env.result.parsed.actions.v) = 2
    /\ ~WellFormedEntry(call.env.result.parsed.actions.v[1])
    /\ Len(session.actions) = 1 /\ session.actions[1].name = "mix"

\* an exception is thrown by the agent run or while its result is processed
RunOrProcessingThrows(env) ==
    \/ env.kind = "run_throws"
    \/ env.kind = "result" /\ env.result.shape = "RunResult" /\ env.result.text = "invalid_json"
    \/ env.kind = "result" /\ CarriesObject(env.result) /\ env.result.parsed.actions.t \in {"null", "num"}

C10_ConstructionFailureRaises ==
    (Called /\ Linkable(call.pre) /\ call.env.kind = "construct_fails")
        => (call.raised = "ValueError" /\ session = call.pre)

C10_Witness ==
    /\ Called /\ Linkable(call.pre) /\ call.env.kind = "construct_fails"
    /\ call.raised = "ValueError" /\ call.pre.parsing_state = INITIAL

\* C13: once the session's parsing_state is ERROR, no step changes it.
C13_ErrorIsTerminal ==
    [][session.parsing_state = ERROR => session'.parsing_state = ERROR]_vars

(***************************************************************************)
(* Pass 1: _convert_json_to_objects (agents/entity_workflow.py)            *)
(***************************************************************************)
\* Python truthiness of a decoded JSON value
Truthy(x) ==
    CASE x.t = "null" -> FALSE
      [] x.t = "str" -> x.v # ""
      [] x.t = "num" -> x.v # 0
      [] x.t = "bool" -> x.v
      [] x.t = "list" -> x.v # <<>>
      [] OTHER -> TRUE

\* str(x) of a decoded JSON value
PyStr(x) ==
    CASE x.t = "str" -> x.v
      [] x.t = "num" -> ToString(x.v)
      [] x.t = "bool" -> IF x.v THEN "True" ELSE "False"
      [] x.t = "list" -> "[...]"
      [] OTHER -> "{...}"

\* " ".join(parts) of a list of str
RECURSIVE Join(_)
Join(parts) ==
    IF parts = <<>> THEN ""
    ELSE IF Len(parts) = 1 THEN parts[1]
    ELSE parts[1] \o " " \o Join(Tail(parts))

\* lines 93-99: modifiers becomes a list
normalize_modifiers(modifiers) ==
    CASE modifiers.t = "str" -> IF modifiers.v # "" THEN JList(<<modifiers>>) ELSE JList(<<>>)
      [] modifiers.t = "list" -> modifiers
      [] OTHER -> JList(<<>>)

\* lines 105-112: the parts list, as decoded values
raw_text_parts(name, amount, unit, modifiers) ==
    (IF amount.t # "null" THEN <<JStr(PyStr(amount))>> ELSE <<>>)
    \o (IF Truthy(unit) THEN <<unit>> ELSE <<>>)
    \o <<name>>
    \o (IF Truthy(modifiers) THEN modifiers.v ELSE <<>>)

\* str.join raises TypeError on an element that is not a str
JoinRaises(parts) == \E i \in 1..Len(parts) : parts[i].t # "str"

\* pydantic, lax mode: what a float, bool or int field accepts
NumericStrings == {"2"}

FloatValidates(x) == x.t \in {"num", "bool"} \/ (x.t = "str" /\ x.v \in NumericStrings)

BoolValidates(x) == x.t = "bool" \/ (x.t = "num" /\ x.v \in {0, 1}) \/ (x.t = "str" /\ x.v \in {"true", "false"})

\* Ingredient(...) raises ValidationError unless name: str, amount: Optional[float],
\* unit: Optional[str], modifiers: list[str]
IngredientValidates(name, amount, unit, modifiers) ==
    /\ name.t = "str"
    /\ amount.t = "null" \/ FloatValidates(amount)
    /\ unit.t \in {"null", "str"}
    /\ modifiers.t = "list"
    /\ \A i \in 1..Len(modifiers.v) : modifiers.v[i].t = "str"

\* Equipment(...): name: str, required: bool, modifiers: Optional[str]
EquipmentValidates(name, required, modifiers) ==
    /\ name.t = "str"
    /\ BoolValidates(required)
    /\ modifiers.t \in {"null", "str"}

\* BasicAction(...): verb: str, sentence: str, sentence_index: int
BasicActionValidates(verb, sentence, sentence_index) ==
    /\ verb.t = "str"
    /\ sentence.t = "str"
    /\ FloatValidates(sentence_index)

\* the value a validated float / bool field holds
AsNumber(x) ==
    CASE x.t = "num" -> x
      [] x.t = "bool" -> JNum(IF x.v THEN 1 ELSE 0)
      [] x.t = "str" -> JNum(2)
      [] OTHER -> JNull

AsBool(x) ==
    CASE x.t = "bool" -> x.v
      [] x.t = "num" -> x.v = 1
      [] OTHER -> x.v = "true"

\* lines 85-128: the ingredients loop. The result is [raised, list]: the join
\* of line 113 stands outside the try of lines 115-128.
RECURSIVE convert_ingredients(_, _, _)
convert_ingredients(items, acc, n) ==
    IF items = <<>> THEN [raised |-> FALSE, list |-> acc]
    ELSE LET item == Head(items)
             modifiers == normalize_modifiers(Get(item.v, "modifiers", JList(<<>>)))
             name == Get(item.v, "name", JStr(""))
             amount == Get(item.v, "amount", JNull)
             unit == Get(item.v, "unit", JNull)
             parts == raw_text_parts(name, amount, unit, modifiers)
         IN  IF item.t # "dict" THEN convert_ingredients(Tail(items), acc, n)
             ELSE IF JoinRaises(parts) THEN [raised |-> TRUE, list |-> acc]
             ELSE IF IngredientValidates(name, amount, unit, modifiers)
                  THEN convert_ingredients(Tail(items),
                         Append(acc, Ingredient(Uuid(n + 1), name.v, AsNumber(amount), unit,
                                                [i \in 1..Len(modifiers.v) |-> modifiers.v[i].v],
                                                Join([i \in 1..Len(parts) |-> parts[i].v]))),
                         n + 1)
                  ELSE convert_ingredients(Tail(items), acc, n)

\* lines 130-146: the equipment loop
RECURSIVE convert_equipment(_, _, _)
convert_equipment(items, acc, n) ==
    IF items = <<>> THEN acc
    ELSE LET item == Head(items)
             name == Get(item.v, "name", JStr(""))
             required == Get(item.v, "required", JBool(TRUE))
             modifiers == Get(item.v, "modifiers", JNull)
         IN  IF item.t # "dict" THEN convert_equipment(Tail(items), acc, n)
             ELSE IF EquipmentValidates(name, required, modifiers)
                  THEN convert_equipment(Tail(items),
                         Append(acc, Equipment(Uuid(n + 1), name.v, AsBool(required), modifiers)), n + 1)
                  ELSE convert_equipment(Tail(items), acc, n)

\* lines 148-166: the basic actions loop
RECURSIVE convert_basic_actions(_, _)
convert_basic_actions(items, acc) ==
    IF items = <<>> THEN acc
    ELSE LET item == Head(items)
             verb == Get(item.v, "verb", JStr(""))
             sentence == Get(item.v, "sentence", JStr(""))
             sentence_index == Get(item.v, "sentence_index", JNum(0))
         IN  IF item.t # "dict" THEN convert_basic_actions(Tail(items), acc)
             ELSE IF BasicActionValidates(verb, sentence, sentence_index)
                  THEN convert_basic_actions(Tail(items),
                         Append(acc, BasicAction(verb.v, sentence.v, AsNumber(sentence_index).v)))
                  ELSE convert_basic_actions(Tail(items), acc)

\* lines 66-78: a key that is absent or holds a non-list counts as []
ListOrEmpty(d, key) == LET x == Get(d, key, JList(<<>>)) IN IF x.t = "list" THEN x.v ELSE <<>>

\* _convert_json_to_objects(parsed_json); n counts the uuid4 draws made so far.
\* raised: an exception leaves the function (AttributeError of .get on a
\* non-dict, TypeError of the join).
convert_json_to_objects(parsed_json, n) ==
    IF parsed_json.t # "dict"
    THEN [raised |-> TRUE, ingredients |-> <<>>, equipment |-> <<>>, basic_actions |-> <<>>]
    ELSE LET ing == convert_ingredients(ListOrEmpty(parsed_json.v, "ingredients"), <<>>, n)
         IN  IF ing.raised
             THEN [raised |-> TRUE, ingredients |-> <<>>, equipment |-> <<>>, basic_actions |-> <<>>]
             ELSE [raised |-> FALSE,
                   ingredients |-> ing.list,
                   equipment |-> convert_equipment(ListOrEmpty(parsed_json.v, "equipment"), <<>>, n + Len(ing.list)),
                   basic_actions |-> convert_basic_actions(ListOrEmpty(parsed_json.v, "basic_actions"), <<>>)]

(***************************************************************************)
(* Pass 1: _extract_json_from_response and parse_recipe.  A response is a  *)
(* sequence of tokens: " " whitespace, "x" prose, "fence_json" and "fence" the  *)
(* markers of a json-tagged and of a generic code fence, "{" and "}", "J"  *)
(* the members of the JSON object the model wrote (its payload), "5" a     *)
(* JSON number.                                                            *)
(***************************************************************************)
RECURSIVE lstrip(_)
lstrip(t) == IF t # <<>> /\ Head(t) = " " THEN lstrip(Tail(t)) ELSE t

RECURSIVE rstrip(_)
rstrip(t) == IF t # <<>> /\ t[Len(t)] = " " THEN rstrip(SubSeq(t, 1, Len(t) - 1)) ELSE t

\* str.strip()
strip(t) == rstrip(lstrip(t))

Fence == {"fence_json", "fence"}

\* positions in t of the given tokens, and the least and greatest of a set
Positions(t, tokens) == {i \in 1..Len(t) : t[i] \in tokens}

Least(S) == CHOOSE i \in S : \A j \in S : i <= j

Greatest(S) == CHOOSE i \in S : \A j \in S : j <= i

\* re.search of an opening marker, a lazy group and a fence: the leftmost opening marker that a fence
\* follows, and the text up to the first fence after it, stripped
FencedOpenings(t, opening) == {i \in Positions(t, opening) : \E j \in Positions(t, Fence) : j > i}

FencedContent(t, i) ==
    LET j == Least({k \in Positions(t, Fence) : k > i})
    IN  strip(SubSeq(t, i + 1, j - 1))

JsonFenceOpening == {"fence_json"}

OpenBrace == {"{"}

CloseBrace == {"}"}

\* mutant: the generic fence rule is tried before the json fence rule
extract_generic_first(response) ==
    LET clean_result == strip(response)
        json_opens == FencedOpenings(clean_result, JsonFenceOpening)
        code_opens == FencedOpenings(clean_result, Fence)
        opens == Positions(clean_result, OpenBrace)
        closes == Positions(clean_result, CloseBrace)
    IN  IF clean_result = <<>> THEN <<>>
        ELSE IF code_opens # {} THEN FencedContent(clean_result, Least(code_opens))
        ELSE IF json_opens # {} THEN FencedContent(clean_result, Least(json_opens))
        ELSE IF opens # {} /\ closes # {} /\ Least(opens) < Greatest(closes)
             THEN SubSeq(clean_result, Least(opens), Greatest(closes))
        ELSE clean_result

\* mutant: the brace rule returns what stands between the two braces
extract_inside_braces(response) ==
    LET clean_result == strip(response)
        json_opens == FencedOpenings(clean_result, JsonFenceOpening)
        code_opens == FencedOpenings(clean_result, Fence)
        opens == Positions(clean_result, OpenBrace)
        closes == Positions(clean_result, CloseBrace)
    IN  IF clean_result = <<>> THEN <<>>
        ELSE IF json_opens # {} THEN FencedContent(clean_result, Least(json_opens))
        ELSE IF code_opens # {} THEN FencedContent(clean_result, Least(code_opens))
        ELSE IF opens # {} /\ closes # {} /\ Least(opens) < Greatest(closes)
             THEN strip(SubSeq(clean_result, Least(opens) + 1, Greatest(closes) - 1))
        ELSE clean_result

\* _extract_json_from_response(response)
extract_json_from_response(response) ==
    LET clean_result == strip(response)
        json_opens == FencedOpenings(clean_result, JsonFenceOpening)
        code_opens == FencedOpenings(clean_result, Fence)
        opens == Positions(clean_result, OpenBrace)
        closes == Positions(clean_result, CloseBrace)
    IN  IF clean_result = <<>> THEN <<>>
        ELSE IF json_opens # {} THEN FencedContent(clean_result, Least(json_opens))
        ELSE IF code_opens # {} THEN FencedContent(clean_result, Least(code_opens))
        ELSE IF opens # {} /\ closes # {} /\ Least(opens) < Greatest(closes)
             THEN SubSeq(clean_result, Least(opens), Greatest(closes))
        ELSE clean_result

\* the object with none of the three keys
EmptyObject == JObj([ingredients |-> Absent, equipment |-> Absent, basic_actions |-> Absent])

\* json.loads(text), where the members token "J" decodes to payload: whitespace
\* between tokens is insignificant; anything but one JSON document is an error.
\* (Each token is a lexical unit of its own: two "5" side by side do not occur.)
json_loads(text, payload) ==
    LET doc == SelectSeq(text, LAMBDA tok : tok # " ")
    IN  CASE doc = <<"{", "J", "}">> -> [ok |-> TRUE, value |-> payload]
          [] doc = <<"{", "}">> -> [ok |-> TRUE, value |-> EmptyObject]
          [] doc = <<"5">> -> [ok |-> TRUE, value |-> JNum(5)]
          [] OTHER -> [ok |-> FALSE, value |-> JNull]

\* What the model boundary does in one parse_recipe call: InferenceClient(...)
\* ("ok" or "fails"), text_generation ("throws", "none" for None, or "text"),
\* the text and the object its "J" token decodes to.
ModelEnv(client, generation, text, payload) == [client |-> client, generation |-> generation, text |-> text, payload |-> payload]

\* mutant: the equipment of the response is assigned before the ingredients
\* are converted, so an error in their conversion leaves it in the session
parse_recipe_partial(recipe, env, n) ==
    LET state == [RecipeSessionState EXCEPT !.raw_text = recipe, !.parsing_state = PARSING_RECIPE]
        parsed == json_loads(extract_json_from_response(env.text), env.payload)
        objects == convert_json_to_objects(parsed.value, n)
    IN  IF env.client = "fails" THEN [raised |-> FALSE, state |-> state]
        ELSE IF env.generation = "throws" THEN [raised |-> TRUE, state |-> state]
        ELSE IF env.generation = "none" \/ env.text = <<>> THEN [raised |-> FALSE, state |-> state]
        ELSE IF ~parsed.ok THEN [raised |-> FALSE, state |-> state]
        ELSE IF objects.raised
             THEN [raised |-> FALSE,
                   state |-> IF parsed.value.t = "dict"
                             THEN [state EXCEPT !.equipment = convert_equipment(ListOrEmpty(parsed.value.v, "equipment"), <<>>, n)]
                             ELSE state]
        ELSE [raised |-> FALSE,
              state |-> [state EXCEPT !.ingredients = objects.ingredients,
                                      !.equipment = objects.equipment,
                                      !.basic_actions = objects.basic_actions,
                                      !.parsing_state = COMPLETED]]

\* parse_recipe(recipe) under the model's behaviour env; n counts the uuid4
\* draws made so far. raised: the exception leaves parse_recipe.
parse_recipe(recipe, env, n) ==
    LET state == [RecipeSessionState EXCEPT !.raw_text = recipe, !.parsing_state = PARSING_RECIPE]
        parsed == json_loads(extract_json_from_response(env.text), env.payload)
        objects == convert_json_to_objects(parsed.value, n)
    IN  IF env.client = "fails" THEN [raised |-> FALSE, state |-> state]
        ELSE IF env.generation = "throws" THEN [raised |-> TRUE, state |-> state]
        ELSE IF env.generation = "none" \/ env.text = <<>> THEN [raised |-> FALSE, state |-> state]
        ELSE IF ~parsed.ok THEN [raised |-> FALSE, state |-> state]
        ELSE IF objects.raised THEN [raised |-> FALSE, state |-> state]
        ELSE [raised |-> FALSE,
              state |-> [state EXCEPT !.ingredients = objects.ingredients,
                                      !.equipment = objects.equipment,
                                      !.basic_actions = objects.basic_actions,
                                      !.parsing_state = COMPLETED]]

(***************************************************************************)
(* Inputs of _convert_json_to_objects: decoded JSON objects whose arrays   *)
(* hold well-formed and malformed items.                                   *)
(***************************************************************************)
IngredientItem(name, amount, unit, modifiers) == JObj([name |-> name, amount |-> amount, unit |-> unit, modifiers |-> modifiers])

EquipmentItem(name, required, modifiers) == JObj([name |-> name, required |-> required, modifiers |-> modifiers])

BasicActionItem(verb, sentence, sentence_index) == JObj([verb |-> verb, sentence |-> sentence, sentence_index |-> sentence_index])

RecipeObject(ingredients, equipment, basic_actions) == JObj([ingredients |-> ingredients, equipment |-> equipment, basic_actions |-> basic_actions])

ItemNames == {Absent, JNull, JStr(""), JStr("flour"), JNum(5)}

ItemModifiers == {Absent, JNull, JStr(""), JStr("diced"), JNum(7), JList(<<>>), JList(<<JStr("diced")>>), JList(<<JStr(""), JStr("ripe")>>), JList(<<JNum(1)>>)}

ItemAmounts == {Absent, JNull, JNum(2), JStr("abc")}

ItemUnits == {Absent, JStr(""), JStr("cups"), JNum(5), JNum(0)}

IngredientItems ==
    {JStr("salt")}
    \cup {IngredientItem(nm, JNum(2), JStr("cups"), md) : nm \in ItemNames, md \in ItemModifiers}
    \cup {IngredientItem(JStr("flour"), am, un, Absent) : am \in ItemAmounts, un \in ItemUnits}

EquipmentItems ==
    {JNum(3)}
    \cup {EquipmentItem(nm, rq, md) : nm \in {Absent, JNull, JStr("bowl")},
                                       rq \in {Absent, JBool(FALSE), JStr("maybe")},
                                       md \in {Absent, JStr("large"), JNum(1)}}

BasicActionItems ==
    {JNull}
    \cup {BasicActionItem(vb, st, ix) : vb \in {Absent, JStr("mix"), JNum(1)},
                                         st \in {JStr("Mix."), JNull},
                                         ix \in {Absent, JNum(1), JStr("one")}}

\* values of a top-level key that are not arrays
NonArrays == {Absent, JNull, JStr("flour"), JNum(1), JObj([name |-> JStr("flour")])}

ConvertInputs(n) ==
    {RecipeObject(JList(l), Absent, Absent) : l \in SeqUpTo(IngredientItems, n)}
    \cup {RecipeObject(Absent, JList(l), Absent) : l \in SeqUpTo(EquipmentItems, n)}
    \cup {RecipeObject(Absent, Absent, JList(l)) : l \in SeqUpTo(BasicActionItems, n)}
    \cup {RecipeObject(i, e, b) : i \in NonArrays, e \in NonArrays, b \in NonArrays}

NoConvert == [op |-> "none", input |-> EmptyObject, raised |-> FALSE, ingredients |-> <<>>, equipment |-> <<>>, basic_actions |-> <<>>]

InitConvert ==
    /\ session = RecipeSessionState
    /\ pc = "api"
    /\ recipe_text = ""
    /\ ui = UiIdle
    /\ uuid_counter = 0
    /\ call = NoConvert

\* a direct call _convert_json_to_objects(parsed_json)
CallConvert ==
    /\ pc = "api"
    /\ call.op = "none"
    /\ \E parsed_json \in ConvertInputs(MaxItems) :
         LET r == convert_json_to_objects(parsed_json, uuid_counter)
         IN  /\ call' = [op |-> "convert", input |-> parsed_json, raised |-> r.raised,
                         ingredients |-> r.ingredients, equipment |-> r.equipment, basic_actions |-> r.basic_actions]
             /\ uuid_counter' = uuid_counter + Len(r.ingredients) + Len(r.equipment)
    /\ UNCHANGED <<session, pc, recipe_text, ui>>

NextConvert == CallConvert

SpecConvert == InitConvert /\ [][NextConvert]_vars

\* C4: for every decoded JSON object, _convert_json_to_objects returns its three
\* lists and never raises.
C4_ConvertNeverRaises == (call.op = "convert" /\ call.input.t = "dict") => ~call.raised

\* the ingredients array given to the call (empty when the value is no array)
InputIngredients == ListOrEmpty(call.input.v, "ingredients")

\* the non-empty parts of an ingredient item, in the order amount, unit, name,
\* modifiers
NonEmptyParts(item) ==
    LET amount == Get(item.v, "amount", JNull)
        unit == Get(item.v, "unit", JNull)
        name == Get(item.v, "name", JNull)
        modifiers == Get(item.v, "modifiers", JNull)
        each == IF modifiers.t = "list" THEN modifiers.v
                ELSE IF modifiers.t = "str" THEN <<modifiers>> ELSE <<>>
        all == (IF amount.t = "null" THEN <<>> ELSE <<JStr(PyStr(amount))>>) \o <<unit, name>> \o each
        kept == SelectSeq(all, LAMBDA part : part.t = "str" /\ part.v # "")
    IN  [i \in 1..Len(kept) |-> kept[i].v]

\* C17: the raw_text of every ingredient that converts is the single-space
\* join of the non-empty parts among str(amount), unit, name and each modifier.
C17_RawTextJoinsNonEmptyParts ==
    (call.op = "convert" /\ call.input.t = "dict" /\ ~call.raised /\ Len(call.ingredients) = Len(InputIngredients))
        => \A i \in 1..Len(call.ingredients) :
               call.ingredients[i].raw_text = Join(NonEmptyParts(InputIngredients[i]))

\* an item is well-formed: an object whose fields, after defaulting, pass the
\* validation of its class
WellFormedIngredient(item) ==
    /\ item.t = "dict"
    /\ IngredientValidates(Get(item.v, "name", JStr("")), Get(item.v, "amount", JNull), Get(item.v, "unit", JNull),
                           normalize_modifiers(Get(item.v, "modifiers", JList(<<>>))))

WellFormedEquipment(item) ==
    /\ item.t = "dict"
    /\ EquipmentValidates(Get(item.v, "name", JStr("")), Get(item.v, "required", JBool(TRUE)), Get(item.v, "modifiers", JNull))

WellFormedBasicAction(item) ==
    /\ item.t = "dict"
    /\ BasicActionValidates(Get(item.v, "verb", JStr("")), Get(item.v, "sentence", JStr("")), Get(item.v, "sentence_index", JNum(0)))

\* the values under key of the items kept, in input order
ValuesOf(kept, key) == [i \in 1..Len(kept) |-> Get(kept[i].v, key, JStr("")).v]

\* C18: each output list holds exactly one object per well-formed item of its
\* array, in input order, whatever malformed items stand around them.
C18_PerItemIndependence ==
    (call.op = "convert" /\ call.input.t = "dict") =>
        /\ ~call.raised
        /\ [i \in 1..Len(call.ingredients) |-> call.ingredients[i].name]
               = ValuesOf(SelectSeq(InputIngredients, WellFormedIngredient), "name")
        /\ [i \in 1..Len(call.equipment) |-> call.equipment[i].name]
               = ValuesOf(SelectSeq(ListOrEmpty(call.input.v, "equipment"), WellFormedEquipment), "name")
        /\ [i \in 1..Len(call.basic_actions) |-> call.basic_actions[i].verb]
               = ValuesOf(SelectSeq(ListOrEmpty(call.input.v, "basic_actions"), WellFormedBasicAction), "verb")

(***************************************************************************)
(* Direct calls of parse_recipe.                                           *)
(***************************************************************************)
FlourItem == IngredientItem(JStr("flour"), JNum(2), JStr("cups"), Absent)

SaltItem == IngredientItem(JStr("salt"), Absent, Absent, JStr("fine"))

BowlItem == EquipmentItem(JStr("mixing bowl"), Absent, JStr("large"))

MixItem == BasicActionItem(JStr("mix"), JStr("Mix the flour in a large mixing bowl."), JNum(0))

\* an item whose join raises, and one that fails validation
NullNameItem == IngredientItem(JNull, JNum(1), Absent, Absent)

BadAmountItem == IngredientItem(JStr("egg"), JStr("abc"), Absent, Absent)

Pass1Payloads ==
    {RecipeObject(i, e, b) :
        i \in {Absent, JNull} \cup {JList(l) : l \in SeqUpTo({JStr("salt"), FlourItem, SaltItem, NullNameItem, BadAmountItem}, MaxItems)},
        e \in {Absent, JList(<<BowlItem>>), JList(<<EquipmentItem(JNull, Absent, Absent)>>)},
        b \in {Absent, JList(<<MixItem>>), JStr("mix")}}

\* responses: the bare object, the object in prose, in a json fence, in a
\* generic fence, prose alone, whitespace, a truncated object, two objects, a
\* number, the empty object, a brace span in the prose before a json fence
ResponseTexts ==
    { <<"{", "J", "}">>,
      <<"x", " ", "{", "J", "}", " ", "x">>,
      <<"x", "fence_json", " ", "{", "J", "}", " ", "fence", "x">>,
      <<"fence", "{", "J", "}", "fence">>,
      <<"x">>,
      <<" ">>,
      <<"{", "J">>,
      <<"{", "J", "}", "x", "{", "J", "}">>,
      <<"5">>,
      <<"{", "}">>,
      <<"{", "x", "}", " ", "fence_json", " ", "{", "J", "}", " ", "fence", " ", "x">> }

ModelOutcomes ==
    {ModelEnv("fails", "none", <<>>, EmptyObject), ModelEnv("ok", "throws", <<>>, EmptyObject),
     ModelEnv("ok", "none", <<>>, EmptyObject), ModelEnv("ok", "text", <<>>, EmptyObject)}
    \cup {ModelEnv("ok", "text", tx, pl) : tx \in ResponseTexts, pl \in Pass1Payloads}

Recipes == {"Mix the flour in a large mixing bowl.", "Whisk the eggs."}

NoParse == [op |-> "none", recipe |-> "", env |-> ModelEnv("ok", "none", <<>>, EmptyObject), raised |-> FALSE, n |-> 0]

InitPass1 ==
    /\ session = RecipeSessionState
    /\ pc = "api"
    /\ recipe_text = ""
    /\ ui = UiIdle
    /\ uuid_counter = 0
    /\ call = NoParse

\* a direct call session = parse_recipe(recipe); when it raises, the caller has
\* no session
CallParseRecipe ==
    /\ pc = "api"
    /\ call.op = "none"
    /\ \E recipe \in Recipes, env \in ModelOutcomes :
         LET r == parse_recipe(recipe, env, uuid_counter)
         IN  /\ session' = (IF r.raised THEN session ELSE r.state)
             /\ call' = [op |-> "parse_recipe", recipe |-> recipe, env |-> env, raised |-> r.raised, n |-> uuid_counter]
             /\ uuid_counter' = uuid_counter + Len(r.state.ingredients) + Len(r.state.equipment)
    /\ UNCHANGED <<pc, recipe_text, ui>>

NextPass1 == CallParseRecipe

SpecPass1 == InitPass1 /\ [][NextPass1]_vars

\* C5: parse_recipe never raises: whatever the model boundary does, it returns
\* a session whose raw_text is the input text.
C5_ParseRecipeNeverRaises ==
    call.op = "parse_recipe" => (~call.raised /\ session.raw_text = call.recipe)

\* parse_recipe returned a session (it did not raise)
Returned == call.op = "parse_recipe" /\ ~call.raised

\* what the cleaned response of the call decodes to
Decoded == json_loads(extract_json_from_response(call.env.text), call.env.payload)

\* the model returned a non-empty response whose cleaned form decodes to a JSON object
DecodesToObject ==
    /\ call.env.client = "ok"
    /\ call.env.generation = "text"
    /\ call.env.text # <<>>
    /\ Decoded.ok
    /\ Decoded.value.t = "dict"

\* C11: a non-empty response whose cleaned form decodes to a JSON object gives
\* a session with raw_text = input, the three lists of the conversion and
\* parsing_state = COMPLETED; no other outcome gives COMPLETED.
C11_SuccessIffObject ==
    Returned =>
        /\ DecodesToObject =>
               LET objects == convert_json_to_objects(Decoded.value, call.n)
               IN  /\ session.parsing_state = COMPLETED
                   /\ session.raw_text = call.recipe
                   /\ session.ingredients = objects.ingredients
                   /\ session.equipment = objects.equipment
                   /\ session.basic_actions = objects.basic_actions
        /\ session.parsing_state = COMPLETED => DecodesToObject

\* C12: every returned session that is not a success has raw_text = input,
\* the three lists empty and parsing_state = PARSING_RECIPE; a success has all
\* three lists from the response.
C12_AllOrNothing ==
    Returned =>
        /\ session.raw_text = call.recipe
        /\ session.parsing_state \in {COMPLETED, PARSING_RECIPE}
        /\ session.parsing_state = PARSING_RECIPE =>
               /\ session.ingredients = <<>>
               /\ session.equipment = <<>>
               /\ session.basic_actions = <<>>
               /\ session.actions = <<>>
        /\ session.parsing_state = COMPLETED =>
               LET objects == convert_json_to_objects(Decoded.value, call.n)
               IN  /\ session.ingredients = objects.ingredients
                   /\ session.equipment = objects.equipment
                   /\ session.basic_actions = objects.basic_actions

\* a response whose ingredients raise during conversion while its equipment
\* array holds a valid item: nothing of the response is in the session
C12_Witness ==
    /\ Returned
    /\ DecodesToObject
    /\ convert_json_to_objects(Decoded.value, call.n).raised
    /\ Decoded.value.v.equipment = JList(<<BowlItem>>)
    /\ session.parsing_state = PARSING_RECIPE
    /\ session.equipment = <<>>

(***************************************************************************)
(* The library-style converter of agents/models.py,                        *)
(* ingredients_and_equipment_from_parsed_recipe: it takes the serialized   *)
(* JSON and raises on structural violations.  Its two item loops are the   *)
(* loops of _convert_json_to_objects, line for line.                       *)
(***************************************************************************)
LibraryResult(raised, message, ingredients, equipment) == [raised |-> raised, message |-> message, ingredients |-> ingredients, equipment |-> equipment]

\* mutant: a missing key counts as an empty array
library_defaults_missing_keys(text, payload, n) ==
    LET data == json_loads(text, payload)
        ing == convert_ingredients(ListOrEmpty(data.value.v, "ingredients"), <<>>, n)
    IN  IF ~data.ok THEN LibraryResult("ValueError", "Invalid JSON", <<>>, <<>>)
        ELSE IF data.value.t # "dict" THEN LibraryResult("ValueError", "JSON must be an object", <<>>, <<>>)
        ELSE IF data.value.v.ingredients.t \notin {"list", "absent"}
             THEN LibraryResult("ValueError", "'ingredients' must be an array", <<>>, <<>>)
        ELSE IF data.value.v.equipment.t \notin {"list", "absent"}
             THEN LibraryResult("ValueError", "'equipment' must be an array", <<>>, <<>>)
        ELSE IF ing.raised THEN LibraryResult("TypeError", "sequence item: expected str instance", <<>>, <<>>)
        ELSE LibraryResult("none", "", ing.list,
                           convert_equipment(ListOrEmpty(data.value.v, "equipment"), <<>>, n + Len(ing.list)))

\* ingredients_and_equipment_from_parsed_recipe(serialized_json_components):
\* text is the serialized JSON, payload what its "J" token decodes to
ingredients_and_equipment_from_parsed_recipe(text, payload, n) ==
    LET data == json_loads(text, payload)
        ing == convert_ingredients(data.value.v.ingredients.v, <<>>, n)
    IN  IF ~data.ok THEN LibraryResult("ValueError", "Invalid JSON", <<>>, <<>>)
        ELSE IF data.value.t # "dict" THEN LibraryResult("ValueError", "JSON must be an object", <<>>, <<>>)
        ELSE IF data.value.v.ingredients.t = "absent" \/ data.value.v.equipment.t = "absent"
             THEN LibraryResult("ValueError", "JSON must contain 'ingredients' and 'equipment' keys", <<>>, <<>>)
        ELSE IF data.value.v.ingredients.t # "list"
             THEN LibraryResult("ValueError", "'ingredients' must be an array", <<>>, <<>>)
        ELSE IF data.value.v.equipment.t # "list"
             THEN LibraryResult("ValueError", "'equipment' must be an array", <<>>, <<>>)
        ELSE IF ing.raised THEN LibraryResult("TypeError", "sequence item: expected str instance", <<>>, <<>>)
        ELSE LibraryResult("none", "", ing.list,
                           convert_equipment(data.value.v.equipment.v, <<>>, n + Len(ing.list)))

\* serialized inputs: an object, an object between whitespace, a truncated
\* object, prose, the empty string, a number, the empty object
LibraryTexts == {<<"{", "J", "}">>, <<" ", "{", "J", "}", " ">>, <<"{", "J">>, <<"x">>, <<>>, <<"5">>, <<"{", "}">>}

LibraryPayloads ==
    {RecipeObject(i, e, Absent) :
        i \in NonArrays \cup {JList(l) : l \in SeqUpTo({JStr("salt"), FlourItem, NullNameItem, BadAmountItem}, MaxItems)},
        e \in NonArrays \cup {JList(l) : l \in SeqUpTo({JNum(3), BowlItem}, MaxItems)}}

NoLibraryCall == [op |-> "none", text |-> <<>>, payload |-> EmptyObject, result |-> LibraryResult("none", "", <<>>, <<>>)]

InitLibrary ==
    /\ session = RecipeSessionState
    /\ pc = "api"
    /\ recipe_text = ""
    /\ ui = UiIdle
    /\ uuid_counter = 0
    /\ call = NoLibraryCall

\* a direct call ingredients_and_equipment_from_parsed_recipe(text)
CallLibrary ==
    /\ pc = "api"
    /\ call.op = "none"
    /\ \E text \in LibraryTexts, payload \in LibraryPayloads :
         LET r == ingredients_and_equipment_from_parsed_recipe(text, payload, uuid_counter)
         IN  /\ call' = [op |-> "library", text |-> text, payload |-> payload, result |-> r]
             /\ uuid_counter' = uuid_counter + Len(r.ingredients) + Len(r.equipment)
    /\ UNCHANGED <<session, pc, recipe_text, ui>>

NextLibrary == CallLibrary

SpecLibrary == InitLibrary /\ [][NextLibrary]_vars

\* what the serialized input of the call holds, read as a JSON document
Document ==
    LET doc == SelectSeq(call.text, LAMBDA tok : tok # " ")
    IN  IF doc = <<"{", "J", "}">> THEN [valid |-> TRUE, value |-> call.payload]
        ELSE IF doc = <<"{", "}">> THEN [valid |-> TRUE, value |-> EmptyObject]
        ELSE IF doc = <<"5">> THEN [valid |-> TRUE, value |-> JNum(5)]
        ELSE [valid |-> FALSE, value |-> JNull]

\* not valid JSON, not an object, a key missing, or a value that is no array
StructuralViolation ==
    \/ ~Document.valid
    \/ Document.value.t # "dict"
    \/ Document.value.v.ingredients.t # "list"
    \/ Document.value.v.equipment.t # "list"

\* every item of both arrays is either no object or a well-formed object
ItemsNonObjectOrWellFormed ==
    /\ \A i \in 1..Len(Document.value.v.ingredients.v) :
           LET item == Document.value.v.ingredients.v[i] IN item.t # "dict" \/ WellFormedIngredient(item)
    /\ \A i \in 1..Len(Document.value.v.equipment.v) :
           LET item == Document.value.v.equipment.v[i] IN item.t # "dict" \/ WellFormedEquipment(item)

\* C19: the library converter raises ValueError with a message on a
\* structural violation, and skips non-object items of valid arrays without
\* raising.
C19_LibraryRaisesOnStructure ==
    call.op = "library" =>
        /\ StructuralViolation => (call.result.raised = "ValueError" /\ call.result.message # "")
        /\ (~StructuralViolation /\ ItemsNonObjectOrWellFormed) =>
               /\ call.result.raised = "none"
               /\ Len(call.result.ingredients) = Len(SelectSeq(Document.value.v.ingredients.v, WellFormedIngredient))
               /\ Len(call.result.equipment) = Len(SelectSeq(Document.value.v.equipment.v, WellFormedEquipment))

\* valid arrays with a non-object item beside a well-formed one in each: the
\* call returns the two well-formed objects
C19_Witness ==
    /\ call.op = "library"
    /\ ~StructuralViolation
    /\ call.payload.v.ingredients = JList(<<JStr("salt"), FlourItem>>)
    /\ call.payload.v.equipment = JList(<<BowlItem, JNum(3)>>)
    /\ call.result.raised = "none"
    /\ Len(call.result.ingredients) = 1
    /\ Len(call.result.equipment) = 1

(***************************************************************************)
(* The dependency graph (agents/graph_tools.py): _build_graph_data turns a *)
(* session into a list of nodes and a list of edges.                       *)
(***************************************************************************)
Node(id, name, type) == [id |-> id, name |-> name, type |-> type]

Edge(source, target, type) == [source |-> source, target |-> target, type |-> type]

\* lines 198-230: the node and the edges of one action
ActionNode(action) == Node("action_" \o action.id, action.name, "action")

\* mutant: an ingredient id an action lists twice gives one edge
ActionEdgesOnce(action) ==
    LET ids == action.ingredient_ids
        first == SelectSeq([i \in 1..Len(ids) |-> [at |-> i, id |-> ids[i]]],
                           LAMBDA e : \A k \in 1..(e.at - 1) : ids[k] # e.id)
    IN  [i \in 1..Len(first) |-> Edge(first[i].id, "action_" \o action.id, "ingredient_to_action")]
        \o (IF action.equipment_id # ""
             THEN <<Edge("action_" \o action.id, action.equipment_id, "action_to_equipment")>>
             ELSE <<>>)

ActionEdges(action) ==
    [i \in 1..Len(action.ingredient_ids) |->
        Edge(action.ingredient_ids[i], "action_" \o action.id, "ingredient_to_action")]
    \o (IF action.equipment_id # ""
         THEN <<Edge("action_" \o action.id, action.equipment_id, "action_to_equipment")>>
         ELSE <<>>)

RECURSIVE AllActionEdges(_)
AllActionEdges(actions) ==
    IF actions = <<>> THEN <<>> ELSE ActionEdges(Head(actions)) \o AllActionEdges(Tail(actions))

\* mutant: equipment gets no nodes
build_graph_data_without_equipment(state) ==
    [nodes |-> [i \in 1..Len(state.ingredients) |-> Node(state.ingredients[i].id, state.ingredients[i].name, "ingredient")]
               \o [i \in 1..Len(state.actions) |-> ActionNode(state.actions[i])],
     edges |-> AllActionEdges(state.actions)]

\* _build_graph_data(state, colors)
build_graph_data(state) ==
    [nodes |-> [i \in 1..Len(state.ingredients) |-> Node(state.ingredients[i].id, state.ingredients[i].name, "ingredient")]
               \o [i \in 1..Len(state.equipment) |-> Node(state.equipment[i].id, state.equipment[i].name, "equipment")]
               \o [i \in 1..Len(state.actions) |-> ActionNode(state.actions[i])],
     edges |-> AllActionEdges(state.actions)]

\* _create_node_traces: one trace per node type that has nodes, in the order
\* ingredient, action, equipment
create_node_traces(nodes) ==
    LET has(type) == \E k \in 1..Len(nodes) : nodes[k].type = type
    IN  (IF has("ingredient") THEN <<"Ingredients">> ELSE <<>>)
        \o (IF has("action") THEN <<"Actions">> ELSE <<>>)
        \o (IF has("equipment") THEN <<"Equipment">> ELSE <<>>)

Figure(traces, annotations) == [traces |-> traces, annotations |-> annotations]

\* mutant: the graph is built whether or not the session has actions
create_dependency_graph_always_builds(state) ==
    Figure(<<"edges">> \o create_node_traces(build_graph_data(state).nodes),
           <<"Hover over nodes for details. Drag to explore the network.">>)

\* create_dependency_graph(state): the traces of the figure, by name, and the
\* texts of its annotations
create_dependency_graph(state) ==
    IF state.actions = <<>>
    THEN Figure(<<>>, <<"No actions found" \o ". Parse recipe actions first to generate dependency graph.">>)
    ELSE Figure(<<"edges">> \o create_node_traces(build_graph_data(state).nodes),
                <<"Hover over nodes for details. Drag to explore the network.">>)

\* one part of a rendered action: its label and the names listed after it
\* (the code joins the names with ", " and the parts with " | " or "<br>")
Part(label, items) == [label |-> label, items |-> items]

\* the names of the session's ingredients whose id the action lists, in
\* session order
ResolvedIngredientNames(action, state) ==
    LET ids == {action.ingredient_ids[k] : k \in 1..Len(action.ingredient_ids)}
        found == SelectSeq(state.ingredients, LAMBDA ing : ing.id \in ids)
    IN  [i \in 1..Len(found) |-> found[i].name]

\* next((eq.name for eq in state.equipment if eq.id == action.equipment_id), "Unknown")
EquipmentNameOrUnknown(action, state) ==
    LET found == SelectSeq(state.equipment, LAMBDA eq : eq.id = action.equipment_id)
    IN  IF found = <<>> THEN "Unknown" ELSE found[1].name

\* mutant: an equipment id that resolves to nothing is left out
display_parts_omit_unknown(action, state) ==
    <<Part("Action", <<action.name>>)>>
    \o (IF action.ingredient_ids # <<>> THEN <<Part("Ingredients", ResolvedIngredientNames(action, state))>> ELSE <<>>)
    \o (IF action.equipment_id # "" /\ EquipmentNameOrUnknown(action, state) # "Unknown"
         THEN <<Part("Equipment", <<EquipmentNameOrUnknown(action, state)>>)>> ELSE <<>>)

\* state.py lines 111-126: the parts of one action in format_actions_for_display
display_parts(action, state) ==
    <<Part("Action", <<action.name>>)>>
    \o (IF action.ingredient_ids # <<>> THEN <<Part("Ingredients", ResolvedIngredientNames(action, state))>> ELSE <<>>)
    \o (IF action.equipment_id # "" THEN <<Part("Equipment", <<EquipmentNameOrUnknown(action, state)>>)>> ELSE <<>>)

\* RecipeSessionState.format_actions_for_display
format_actions_for_display(state) ==
    IF state.actions = <<>> THEN [message |-> "No actions parsed yet.", lines |-> <<>>]
    ELSE [message |-> "", lines |-> [i \in 1..Len(state.actions) |-> display_parts(state.actions[i], state)]]

\* _format_action_hover(action, state)
format_action_hover(action, state) ==
    <<Part("Action", <<action.name>>)>>
    \o (IF action.ingredient_ids # <<>> /\ ResolvedIngredientNames(action, state) # <<>>
         THEN <<Part("Ingredients", ResolvedIngredientNames(action, state))>> ELSE <<>>)
    \o (IF action.equipment_id # "" THEN <<Part("Equipment", <<EquipmentNameOrUnknown(action, state)>>)>> ELSE <<>>)

Salt == Ingredient("u4", "salt", JNull, JNull, <<"fine">>, "salt fine")

\* the links an agent gives an action: none, one, the same ingredient twice,
\* an id of no ingredient; no equipment, the bowl, an id of no equipment
LinkedIngredientIds == {<<>>, <<"u1">>, <<"u1", "u1">>, <<"u1", "u4">>, <<"u9">>}

LinkedEquipmentIds == {"", "u2", "u9"}

\* action lists of up to MaxAgentActions actions, their ids by position
GraphActionLists ==
    {[i \in 1..Len(l) |-> Action(Uuid(10 + i), "mix", l[i].ingredient_ids, l[i].equipment_id)] :
        l \in SeqUpTo([ingredient_ids : LinkedIngredientIds, equipment_id : LinkedEquipmentIds], MaxAgentActions)}

GraphSessions ==
    {[raw_text |-> "Mix the flour in a large mixing bowl.", ingredients |-> i, equipment |-> e,
      basic_actions |-> <<Mix>>, actions |-> a, parsing_state |-> COMPLETED] :
        i \in {<<>>, <<Flour>>, <<Flour, Salt>>}, e \in {<<>>, <<Bowl>>}, a \in GraphActionLists}

NoGraph == [op |-> "none", nodes |-> <<>>, edges |-> <<>>]

InitGraph ==
    /\ session \in GraphSessions
    /\ pc = "api"
    /\ recipe_text = ""
    /\ ui = UiIdle
    /\ uuid_counter = 0
    /\ call = NoGraph

\* nodes, edges = _build_graph_data(state, colors)
CallBuildGraph ==
    /\ pc = "api"
    /\ call.op = "none"
    /\ LET g == build_graph_data(session)
       IN  call' = [op |-> "graph", nodes |-> g.nodes, edges |-> g.edges]
    /\ UNCHANGED <<session, pc, recipe_text, ui, uuid_counter>>

\* fig = create_dependency_graph(state)
CallCreateGraph ==
    /\ pc = "api"
    /\ call.op = "none"
    /\ LET fig == create_dependency_graph(session)
       IN  call' = [op |-> "figure", traces |-> fig.traces, annotations |-> fig.annotations]
    /\ UNCHANGED <<session, pc, recipe_text, ui, uuid_counter>>

\* the actions text of the display and the hover text of every action node
CallDisplay ==
    /\ pc = "api"
    /\ call.op = "none"
    /\ call' = [op |-> "display", display |-> format_actions_for_display(session),
                hovers |-> [i \in 1..Len(session.actions) |-> format_action_hover(session.actions[i], session)]]
    /\ UNCHANGED <<session, pc, recipe_text, ui, uuid_counter>>

NextGraph == CallBuildGraph \/ CallCreateGraph \/ CallDisplay

SpecGraph == InitGraph /\ [][NextGraph]_vars

\* how many entries of a list satisfy ... : counted as index sets
NodesWith(id, type) == {k \in 1..Len(call.nodes) : call.nodes[k].id = id /\ call.nodes[k].type = type}

EdgesWith(source, target, type) ==
    {k \in 1..Len(call.edges) : call.edges[k] = Edge(source, target, type)}

RECURSIVE LinkCount(_)
LinkCount(actions) ==
    IF actions = <<>> THEN 0
    ELSE Len(Head(actions).ingredient_ids) + (IF Head(actions).equipment_id # "" THEN 1 ELSE 0) + LinkCount(Tail(actions))

\* C20: for a session with at least one action the graph has one node per
\* ingredient, per equipment and per action ("action_" + id), one
\* ingredient-to-action edge per entry of each ingredient_ids, one
\* action-to-equipment edge per action with an equipment_id, and nothing else.
C20_GraphNodesAndEdges ==
    (call.op = "graph" /\ Len(session.actions) > 0) =>
        /\ \A i \in 1..Len(session.ingredients) : Cardinality(NodesWith(session.ingredients[i].id, "ingredient")) = 1
        /\ \A i \in 1..Len(session.equipment) : Cardinality(NodesWith(session.equipment[i].id, "equipment")) = 1
        /\ \A i \in 1..Len(session.actions) : Cardinality(NodesWith("action_" \o session.actions[i].id, "action")) = 1
        /\ Len(call.nodes) = Len(session.ingredients) + Len(session.equipment) + Len(session.actions)
        /\ \A i \in 1..Len(session.actions) :
               LET action == session.actions[i]
                   node == "action_" \o action.id
               IN  /\ \A id \in {action.ingredient_ids[k] : k \in 1..Len(action.ingredient_ids)} :
                          Cardinality(EdgesWith(id, node, "ingredient_to_action"))
                              = Cardinality({k \in 1..Len(action.ingredient_ids) : action.ingredient_ids[k] = id})
                   /\ Cardinality({k \in 1..Len(call.edges) : call.edges[k].source = node})
                          = (IF action.equipment_id # "" THEN 1 ELSE 0)
                   /\ action.equipment_id # "" =>
                          Cardinality(EdgesWith(node, action.equipment_id, "action_to_equipment")) = 1
        /\ Len(call.edges) = LinkCount(session.actions)

\* C21: a session without actions, whatever its ingredients and equipment,
\* gives a figure with no trace and one annotation that says "No actions found".
C21_NoActionsPlaceholder ==
    (call.op = "figure" /\ session.actions = <<>>) =>
        /\ call.traces = <<>>
        /\ Len(call.annotations) = 1
        /\ call.annotations[1] = "No actions found" \o ". Parse recipe actions first to generate dependency graph."

\* a session with two ingredients and the bowl but no action
C21_Witness ==
    /\ call.op = "figure"
    /\ session.actions = <<>>
    /\ Len(session.ingredients) = 2
    /\ Len(session.equipment) = 1
    /\ call.traces = <<>>

\* the ids of the session's ingredients and equipment
IngredientIdsOf(state) == {state.ingredients[k].id : k \in 1..Len(state.ingredients)}

EquipmentIdsOf(state) == {state.equipment[k].id : k \in 1..Len(state.equipment)}

\* the items a rendering lists under a label (none when the part is missing)
ItemsUnder(parts, label) ==
    LET found == SelectSeq(parts, LAMBDA part : part.label = label)
    IN  IF found = <<>> THEN <<>> ELSE found[1].items

HasPart(parts, label) == \E k \in 1..Len(parts) : parts[k].label = label

Lists(items, name) == \E k \in 1..Len(items) : items[k] = name

C20_Witness ==
    /\ call.op = "graph"
    /\ Len(session.ingredients) = 2
    /\ Len(session.equipment) = 1
    /\ Len(session.actions) = 2
    /\ session.actions[1].ingredient_ids = <<"u1", "u1">> /\ session.actions[1].equipment_id = ""
    /\ session.actions[2].ingredient_ids = <<"u1", "u4">> /\ session.actions[2].equipment_id = "u2"
    /\ Len(call.nodes) = 5
    /\ Len(call.edges) = 5

(***************************************************************************)
(* The sentence context builder (agents/parsing_agent.py).  A recipe text  *)
(* is the sequence of tokens spaCy's tokenizer makes of it: "w" a word,    *)
(* "." a period token, "350F" a token ending in F or C (with or without a  *)
(* degree sign), "350F." such a token with the period fused to it, "sp" a  *)
(* whitespace token.  The pipeline component unit_sentence_boundaries      *)
(* presets sentence starts; the parser, which is not part of the           *)
(* repository, keeps every preset start and adds its own: it splits after  *)
(* the period that ends an ordinary word, it may or may not split after a  *)
(* period that follows a unit (the case the component exists for), and it  *)
(* splits nowhere else.                                                    *)
(***************************************************************************)
DocTokens == {"w", ".", "350F", "350F.", "sp"}

Docs == SeqUpTo(DocTokens, MaxDocTokens)

\* token.text.endswith(("F.", "C.")) and token.text.endswith(("F", "C"))
EndsWithUnitPeriod(tok) == tok = "350F."

EndsWithUnit(tok) == tok = "350F"

\* mutant: in the separated case the period token itself is made the start
unit_sentence_boundaries_before_period(doc) ==
    {i + 1 : i \in {j \in 1..(Len(doc) - 1) : EndsWithUnitPeriod(doc[j])}}
    \cup {i + 1 : i \in {j \in 1..(Len(doc) - 1) :
                            /\ EndsWithUnit(doc[j])
                            /\ doc[j + 1] = "."
                            /\ j + 2 <= Len(doc)}}

\* unit_sentence_boundaries(doc): the positions whose is_sent_start it sets
unit_sentence_boundaries(doc) ==
    {i + 1 : i \in {j \in 1..(Len(doc) - 1) : EndsWithUnitPeriod(doc[j])}}
    \cup {i + 2 : i \in {j \in 1..(Len(doc) - 1) :
                            /\ ~EndsWithUnitPeriod(doc[j])
                            /\ EndsWithUnit(doc[j])
                            /\ doc[j + 1] = "."
                            /\ j + 2 <= Len(doc)}}

\* where the parser splits for certain, and where it may
ParserSplits(doc) == {i + 1 : i \in {j \in 2..(Len(doc) - 1) : doc[j] = "." /\ doc[j - 1] = "w"}}

ParserMaySplit(doc) ==
    {i + 1 : i \in {j \in 1..(Len(doc) - 1) : EndsWithUnitPeriod(doc[j])}}
    \cup {i + 1 : i \in {j \in 2..(Len(doc) - 1) : doc[j] = "." /\ EndsWithUnit(doc[j - 1])}}

\* doc.sents: the doc cut at the sentence starts
Sents(doc, starts) ==
    LET cuts == {1} \cup starts
        end(i) == IF \E j \in cuts : j > i THEN Least({j \in cuts : j > i}) - 1 ELSE Len(doc)
        ordered == SelectSeq([i \in 1..Len(doc) |-> i], LAMBDA i : i \in cuts)
    IN  [k \in 1..Len(ordered) |-> SubSeq(doc, ordered[k], end(ordered[k]))]

\* sent.text.strip()
RECURSIVE strip_text(_)
strip_text(t) ==
    IF t = <<>> THEN t
    ELSE IF Head(t) = "sp" THEN strip_text(Tail(t))
    ELSE IF t[Len(t)] = "sp" THEN strip_text(SubSeq(t, 1, Len(t) - 1))
    ELSE t

\* lines 82-91 on the doc of a pipeline whose components preset the starts in
\* preset, the parser having split at maybe as well
sentence_context_of(doc, preset, maybe) ==
    LET starts == preset \cup ParserSplits(doc) \cup maybe
        texts == [k \in 1..Len(Sents(doc, starts)) |-> strip_text(Sents(doc, starts)[k])]
        kept == SelectSeq(texts, LAMBDA t : t # <<>>)
    IN  [starts |-> IF doc = <<>> THEN {} ELSE {1} \cup starts,
         sentence_context |-> [index \in 0..(Len(kept) - 1) |-> kept[index + 1]]]

\* _build_sentence_context(raw_text) with the pipeline _get_spacy_model builds
build_sentence_context(doc, maybe) == sentence_context_of(doc, unit_sentence_boundaries(doc), maybe)

NoContext == [op |-> "none", doc |-> <<>>, starts |-> {}, sentence_context |-> <<>>]

InitSentences ==
    /\ session = RecipeSessionState
    /\ pc = "api"
    /\ recipe_text = ""
    /\ ui = UiIdle
    /\ uuid_counter = 0
    /\ call = NoContext

\* sentence_context = _build_sentence_context(raw_text)
CallBuildSentenceContext ==
    /\ pc = "api"
    /\ call.op = "none"
    /\ \E doc \in Docs :
         \E maybe \in SUBSET ParserMaySplit(doc) :
            LET r == build_sentence_context(doc, maybe)
            IN  call' = [op |-> "sentence_context", doc |-> doc, starts |-> r.starts,
                         sentence_context |-> r.sentence_context]
    /\ UNCHANGED <<session, pc, recipe_text, ui, uuid_counter>>

NextSentences == CallBuildSentenceContext

SpecSentences == InitSentences /\ [][NextSentences]_vars

\* the tokens of a text that are not whitespace
Words(t) == SelectSeq(t, LAMBDA tok : tok # "sp")

RECURSIVE WordsOfEntries(_, _, _)
WordsOfEntries(context, from, n) ==
    IF from >= n THEN <<>> ELSE Words(context[from]) \o WordsOfEntries(context, from + 1, n)

\* C24: the keys of the mapping are exactly 0..n-1 for the n non-empty
\* sentences, in source order (no key for empty or whitespace-only text);
\* where a token ending in F or C is followed by a period, fused or as the
\* next token, the token after the period starts a new sentence and the
\* period stays with the sentence before it.
C24_SentenceContext ==
    call.op = "sentence_context" =>
        LET doc == call.doc
            context == call.sentence_context
            n == Cardinality({i \in call.starts :
                     \E j \in i..Len(doc) : doc[j] # "sp" /\ \A k \in (i + 1)..j : k \notin call.starts})
        IN  /\ DOMAIN context = 0..(n - 1)
            /\ Words(doc) = <<>> => DOMAIN context = {}
            /\ WordsOfEntries(context, 0, n) = Words(doc)
            /\ \A k \in DOMAIN context : context[k] # <<>> /\ context[k][1] # "sp" /\ context[k][Len(context[k])] # "sp"
            /\ \A i \in 1..(Len(doc) - 1) : doc[i] = "350F." => (i + 1) \in call.starts
            /\ \A i \in 1..(Len(doc) - 2) :
                   (doc[i] = "350F" /\ doc[i + 1] = ".") => ((i + 2) \in call.starts /\ (i + 1) \notin call.starts)

\* "Heat the oven to 350F. Mix flour and salt in a bowl. Bake for 30
\* minutes.": three entries, entry 0 ends with the fused token
C24_Witness ==
    /\ call.op = "sentence_context"
    /\ call.doc = <<"w", "350F.", "w", ".", "w", ".">>
    /\ DOMAIN call.sentence_context = 0..2
    /\ call.sentence_context[0] = <<"w", "350F.">>
    /\ call.sentence_context[1] = <<"w", ".">>
    /\ call.sentence_context[2] = <<"w", ".">>

(***************************************************************************)
(* The pipeline end to end with both model boundaries stubbed:             *)
(* parse_recipe, then parse_dependencies on the session it returned, then  *)
(* _build_graph_data.  The Pass 1 response holds flour, salt, the mixing   *)
(* bowl and "mix"; the Pass 2 result links "mix" to the ids Pass 1 gave.   *)
(***************************************************************************)
ScenarioPayload == RecipeObject(JList(<<FlourItem, SaltItem>>), JList(<<BowlItem>>), JList(<<MixItem>>))

\* the ways the model wraps the object: bare, in prose, in a json fence, in a
\* generic fence
ScenarioTexts ==
    { <<"{", "J", "}">>,
      <<"x", " ", "{", "J", "}", " ", "x">>,
      <<"x", "fence_json", " ", "{", "J", "}", " ", "fence", "x">>,
      <<"fence", "{", "J", "}", "fence">> }

\* the agent's answer in each accepted shape, the two ingredient ids in
\* either order
ScenarioAgentResults(state) ==
    LET flour == state.ingredients[1].id
        salt == state.ingredients[2].id
        bowl == state.equipment[1].id
    IN  {AgentResult(shape[1], shape[2],
                     [actions |-> JList(<<ActionItem(JStr("mix"), JList(<<JStr(ids[1]), JStr(ids[2])>>), JStr(bowl))>>)]) :
            shape \in {<<"dict", "-">>, <<"RunResult", "json">>, <<"AgentText", "json">>},
            ids \in {<<flour, salt>>, <<salt, flour>>}}

NoStep == [op |-> "none", text |-> <<>>, shape |-> "-", nodes |-> <<>>, edges |-> <<>>, traces |-> <<>>]

InitScenario ==
    /\ session = RecipeSessionState
    /\ pc = "api"
    /\ recipe_text = ""
    /\ ui = UiIdle
    /\ uuid_counter = 0
    /\ call = NoStep

\* state = parse_recipe(recipe) with the stubbed response
ScenarioPass1 ==
    /\ call.op = "none"
    /\ \E recipe \in Recipes, text \in ScenarioTexts :
         LET r == parse_recipe(recipe, ModelEnv("ok", "text", text, ScenarioPayload), uuid_counter)
         IN  /\ ~r.raised
             /\ session' = r.state
             /\ recipe_text' = recipe
             /\ uuid_counter' = uuid_counter + Len(r.state.ingredients) + Len(r.state.equipment)
             /\ call' = [NoStep EXCEPT !.op = "parse_recipe", !.text = text]
    /\ UNCHANGED <<pc, ui>>

\* state = parse_dependencies(state) with the stubbed agent
ScenarioPass2 ==
    /\ call.op = "parse_recipe"
    /\ Len(session.ingredients) = 2 /\ Len(session.equipment) = 1
    /\ \E result \in ScenarioAgentResults(session) :
         LET r == parse_dependencies(session, AgentEnv("result", result), uuid_counter)
         IN  /\ r.raised = "none"
             /\ session' = r.state
             /\ uuid_counter' = uuid_counter + Len(r.state.actions)
             /\ call' = [call EXCEPT !.op = "parse_dependencies", !.shape = result.shape]
    /\ UNCHANGED <<pc, recipe_text, ui>>

\* the graph of the session, as data or as the figure
ScenarioGraph ==
    /\ call.op = "parse_dependencies"
    /\ \E as \in {"graph", "figure"} :
         call' = [call EXCEPT !.op = as,
                              !.nodes = build_graph_data(session).nodes,
                              !.edges = build_graph_data(session).edges,
                              !.traces = create_dependency_graph(session).traces]
    /\ UNCHANGED <<session, pc, recipe_text, ui, uuid_counter>>

NextScenario == ScenarioPass1 \/ ScenarioPass2 \/ ScenarioGraph

SpecScenario == InitScenario /\ [][NextScenario]_vars

\* the scenario has run to its end
ScenarioDone == call.op \in {"graph", "figure"}

\* the session of the scenario: COMPLETED, one Action "mix" with two
\* ingredients and one equipment item
ScenarioSession ==
    /\ session.parsing_state = COMPLETED
    /\ Len(session.actions) = 1
    /\ session.actions[1].name = "mix"
    /\ {session.actions[1].ingredient_ids[k] : k \in 1..Len(session.actions[1].ingredient_ids)}
          = {session.ingredients[1].id, session.ingredients[2].id}
    /\ Len(session.actions[1].ingredient_ids) = 2
    /\ session.ingredients[1].id # session.ingredients[2].id
    /\ session.actions[1].equipment_id = session.equipment[1].id

\* C22 as stated: the scenario ends with that session and a graph of exactly
\* 3 nodes and 2 edges.
C22_ScenarioThreeNodesTwoEdges ==
    ScenarioDone => (ScenarioSession /\ Len(call.nodes) = 3 /\ Len(call.edges) = 2)

\* C22 (amended): the scenario ends with the session in COMPLETED and exactly
\* one Action "mix" referencing 2 ingredients and 1 equipment item, and its
\* graph has exactly 4 nodes (2 ingredients, 1 equipment, 1 action) and 3
\* edges (2 ingredient-to-action, 1 action-to-equipment).
C22_ScenarioFourNodesThreeEdges ==
    ScenarioDone =>
        /\ ScenarioSession
        /\ session.raw_text = recipe_text
        /\ Len(call.nodes) = 4
        /\ Len(call.edges) = 3
        /\ Cardinality({k \in 1..4 : call.nodes[k].type = "ingredient"}) = 2
        /\ Cardinality({k \in 1..4 : call.nodes[k].type = "equipment"}) = 1
        /\ Cardinality({k \in 1..4 : call.nodes[k].type = "action"}) = 1

\* the scenario run with a fenced response and a RunResult answer
C22_Witness ==
    /\ ScenarioDone
    /\ call.text = <<"x", "fence_json", " ", "{", "J", "}", " ", "fence", "x">>
    /\ call.shape = "RunResult"
    /\ ScenarioSession
    /\ Len(call.nodes) = 4

(***************************************************************************)
(* Direct calls of _extract_json_from_response on every response of up to  *)
(* MaxTokens tokens.                                                       *)
(***************************************************************************)
CleanTokens == {" ", "x", "J", "fence_json", "fence", "{", "}"}

Responses == SeqUpTo(CleanTokens, MaxTokens)

NoClean == [op |-> "none", response |-> <<>>, result |-> <<>>, again |-> <<>>]

InitClean ==
    /\ session = RecipeSessionState
    /\ pc = "api"
    /\ recipe_text = ""
    /\ ui = UiIdle
    /\ uuid_counter = 0
    /\ call = NoClean

\* result = _extract_json_from_response(response), and the cleaner applied
\* once more to its own result
CallClean ==
    /\ pc = "api"
    /\ call.op = "none"
    /\ \E response \in Responses :
         LET result == extract_json_from_response(response)
         IN  call' = [op |-> "clean", response |-> response, result |-> result,
                      again |-> extract_json_from_response(result)]
    /\ UNCHANGED <<session, pc, recipe_text, ui, uuid_counter>>

NextClean == CallClean

SpecClean == InitClean /\ [][NextClean]_vars

\* a fenced block of t: an opening marker at i, the next fence after it at j
Block(t, i, j, opening) ==
    /\ i \in 1..Len(t) /\ j \in 1..Len(t) /\ i < j
    /\ t[i] \in opening
    /\ t[j] \in {"fence_json", "fence"}
    /\ \A k \in (i + 1)..(j - 1) : t[k] \notin {"fence_json", "fence"}

HasBlock(t, opening) == \E i, j \in 1..Len(t) : Block(t, i, j, opening)

\* the trimmed inner content of the first block of t with that opening
FirstBlockContent(t, opening) ==
    LET i == CHOOSE a \in 1..Len(t) :
                 /\ \E j \in 1..Len(t) : Block(t, a, j, opening)
                 /\ \A b \in 1..(a - 1) : ~\E j \in 1..Len(t) : Block(t, b, j, opening)
        j == CHOOSE b \in 1..Len(t) : Block(t, i, b, opening)
    IN  strip(SubSeq(t, i + 1, j - 1))

HasBraceSpan(t) == \E i, j \in 1..Len(t) : i < j /\ t[i] = "{" /\ t[j] = "}"

\* from the first "{" to the last "}"
BraceSpan(t) ==
    LET i == CHOOSE a \in 1..Len(t) : t[a] = "{" /\ \A b \in 1..(a - 1) : t[b] # "{"
        j == CHOOSE a \in 1..Len(t) : t[a] = "}" /\ \A b \in (a + 1)..Len(t) : t[b] # "}"
    IN  SubSeq(t, i, j)

\* C15: the cleaner returns the inner content of a json-tagged fenced block if
\* there is one; else that of the first generic fenced block; else the span
\* from the first "{" to the last "}"; else the trimmed input; and the empty
\* string for empty or whitespace-only input.
C15_CleanerPriority ==
    call.op = "clean" =>
        LET t == strip(call.response)
        IN  call.result =
                (IF t = <<>> THEN <<>>
                 ELSE IF HasBlock(t, {"fence_json"}) THEN FirstBlockContent(t, {"fence_json"})
                 ELSE IF HasBlock(t, {"fence_json", "fence"}) THEN FirstBlockContent(t, {"fence_json", "fence"})
                 ELSE IF HasBraceSpan(t) THEN BraceSpan(t)
                 ELSE t)

\* a json-tagged block that follows a generic fence and a brace: its content
\* is what the cleaner returns
C15_Witness ==
    /\ call.op = "clean"
    /\ call.response = <<"fence", "{", "fence_json", "J", "fence">>
    /\ call.result = <<"J">>

\* C16: on a response without a fence marker, cleaning the cleaned response
\* changes nothing.
C16_IdempotentWithoutFences ==
    (call.op = "clean" /\ \A k \in 1..Len(call.response) : call.response[k] \notin {"fence_json", "fence"})
        => call.again = call.result

\* a fence-free response with prose around nested braces, cleaned to its span
C16_Witness ==
    /\ call.op = "clean"
    /\ call.response = <<"x", "{", "{", "}", "}">>
    /\ call.result = <<"{", "{", "}", "}">>
    /\ call.again = call.result

(***************************************************************************)
(* The agent's tools for action dicts (agents/tools.py) and the path of    *)
(* their output through parse_dependencies.  An action dict has the keys   *)
(* name, description, ingredient_ids, equipment_id, each possibly absent.  *)
(***************************************************************************)
ToolAction(name, description, ingredient_ids, equipment_id) ==
    JObj([name |-> name, description |-> description, ingredient_ids |-> ingredient_ids, equipment_id |-> equipment_id])

\* "ingredient_ids" in action and action["ingredient_ids"] and len(...) > 0
has_ingredients(action) ==
    /\ action.v.ingredient_ids.t # "absent"
    /\ Truthy(action.v.ingredient_ids)
    /\ Len(action.v.ingredient_ids.v) > 0

\* "equipment_id" in action and action["equipment_id"] and it is neither ""
\* nor None
has_equipment(action) ==
    /\ action.v.equipment_id.t # "absent"
    /\ Truthy(action.v.equipment_id)
    /\ action.v.equipment_id # JStr("")
    /\ action.v.equipment_id.t # "null"

\* mutant: an action is kept only with ingredients and equipment
RECURSIVE filter_valid_actions_both(_)
filter_valid_actions_both(actions) ==
    IF actions = <<>> THEN [raised |-> FALSE, list |-> <<>>]
    ELSE LET action == Head(actions)
             rest == filter_valid_actions_both(Tail(actions))
         IN  IF action.t \notin {"dict", "str", "list"} THEN [raised |-> TRUE, list |-> <<>>]
             ELSE IF rest.raised THEN rest
             ELSE IF action.t = "dict" /\ has_ingredients(action) /\ has_equipment(action)
                  THEN [raised |-> FALSE, list |-> <<action>> \o rest.list]
                  ELSE rest

\* filter_valid_actions(actions); the membership test raises TypeError on an
\* item that is no container, and finds no key in a string or a list
RECURSIVE filter_valid_actions(_)
filter_valid_actions(actions) ==
    IF actions = <<>> THEN [raised |-> FALSE, list |-> <<>>]
    ELSE LET action == Head(actions)
             rest == filter_valid_actions(Tail(actions))
         IN  IF action.t \notin {"dict", "str", "list"} THEN [raised |-> TRUE, list |-> <<>>]
             ELSE IF rest.raised THEN rest
             ELSE IF action.t = "dict" /\ (has_ingredients(action) \/ has_equipment(action))
                  THEN [raised |-> FALSE, list |-> <<action>> \o rest.list]
                  ELSE rest

\* validate_action_structure on one dict
validated_action(action) ==
    LET ingredient_ids == Get(action.v, "ingredient_ids", JList(<<>>))
        equipment_id == Get(action.v, "equipment_id", JNull)
    IN  ToolAction(Get(action.v, "name", JStr("unknown_action")),
                   Get(action.v, "description", JStr("")),
                   IF ingredient_ids.t = "list" THEN ingredient_ids
                   ELSE IF ingredient_ids.t = "str" /\ Truthy(ingredient_ids) THEN JList(<<ingredient_ids>>)
                   ELSE JList(<<>>),
                   IF equipment_id.t = "str" /\ Truthy(equipment_id) THEN equipment_id
                   ELSE IF equipment_id.t = "list" /\ Len(equipment_id.v) > 0 THEN JStr(PyStr(equipment_id.v[1]))
                   ELSE JNull)

\* validate_action_structure(actions): items that are no dicts are skipped
RECURSIVE validate_action_structure(_)
validate_action_structure(actions) ==
    IF actions = <<>> THEN <<>>
    ELSE IF Head(actions).t # "dict" THEN validate_action_structure(Tail(actions))
    ELSE <<validated_action(Head(actions))>> \o validate_action_structure(Tail(actions))

ToolIngredientIds == {Absent, JNull, JList(<<>>), JList(<<JStr("u1")>>), JStr("u1")}

ToolEquipmentIds == {Absent, JNull, JStr(""), JStr("u2"), JList(<<JStr("u2")>>)}

\* what the agent hands to its tools: dicts with every combination of the two
\* links, a string and a null
ToolItems ==
    {JStr("stir"), JNull}
    \cup {ToolAction(JStr(nm), Absent, i, e) : nm \in {"mix", "bake"}, i \in ToolIngredientIds, e \in ToolEquipmentIds}

ToolInputs == SeqUpTo(ToolItems, MaxAgentActions)

NoToolCall == [op |-> "none", actions |-> <<>>, raised |-> FALSE, result |-> <<>>, again |-> <<>>]

\* the session parse_dependencies is given: flour, the bowl and one verb
ToolSession == [RecipeSessionState EXCEPT !.raw_text = "Mix the flour in a large mixing bowl.",
                                          !.ingredients = <<Flour>>, !.equipment = <<Bowl>>, !.basic_actions = <<Mix>>]

InitTools ==
    /\ session = ToolSession
    /\ pc = "api"
    /\ recipe_text = ""
    /\ ui = UiIdle
    /\ uuid_counter = 3
    /\ call = NoToolCall

\* filter_valid_actions(actions), and the filter applied to what it returned
CallFilterValidActions ==
    /\ call.op = "none"
    /\ \E actions \in ToolInputs :
         LET r == filter_valid_actions(actions)
         IN  call' = [op |-> "filter_valid_actions", actions |-> actions, raised |-> r.raised,
                      result |-> r.list, again |-> filter_valid_actions(r.list).list]
    /\ UNCHANGED <<session, pc, recipe_text, ui, uuid_counter>>

\* validate_action_structure(actions)
CallValidateActionStructure ==
    /\ call.op = "none"
    /\ \E actions \in ToolInputs :
         call' = [op |-> "validate_action_structure", actions |-> actions, raised |-> FALSE,
                  result |-> validate_action_structure(actions), again |-> <<>>]
    /\ UNCHANGED <<session, pc, recipe_text, ui, uuid_counter>>

\* the agent follows its prompt: validate_action_structure, then
\* filter_valid_actions, then the final answer {"actions": [...]} that
\* parse_dependencies converts
AgentPipeline ==
    /\ call.op = "none"
    /\ \E actions \in ToolInputs :
         LET validated == validate_action_structure(actions)
             filtered == filter_valid_actions(validated)
             r == parse_dependencies(session, AgentEnv("result", AgentResult("dict", "-", [actions |-> JList(filtered.list)])), uuid_counter)
         IN  /\ session' = r.state
             /\ uuid_counter' = uuid_counter + Len(r.state.actions)
             /\ call' = [op |-> "pipeline", actions |-> actions, raised |-> filtered.raised,
                          result |-> filtered.list, again |-> <<>>]
    /\ UNCHANGED <<pc, recipe_text, ui>>

NextTools == CallFilterValidActions \/ CallValidateActionStructure \/ AgentPipeline

SpecTools == InitTools /\ [][NextTools]_vars

\* the filter's condition as the contract words it: a non-empty
\* ingredient_ids, or an equipment_id that is neither null nor empty
NonEmptyValue(x) ==
    CASE x.t = "list" -> x.v # <<>>
      [] x.t = "str" -> x.v # ""
      [] OTHER -> FALSE

HasLink(action) == NonEmptyValue(action.v.ingredient_ids) \/ NonEmptyValue(action.v.equipment_id)

AllDicts(actions) == \A i \in 1..Len(actions) : actions[i].t = "dict"

\* C27: on action dicts, filter_valid_actions returns without error exactly
\* those with a non-empty ingredient_ids or an equipment_id neither null nor
\* empty, unmodified and in input order; filtering its output changes nothing.
C27_FilterValidActions ==
    (call.op = "filter_valid_actions" /\ AllDicts(call.actions)) =>
        /\ ~call.raised
        /\ call.result = SelectSeq(call.actions, HasLink)
        /\ call.again = call.result

\* two dicts are given, the first with a null ingredient_ids and no
\* equipment_id, the second with one ingredient and an empty equipment_id:
\* only the second is returned
C27_Witness ==
    /\ call.op = "filter_valid_actions"
    /\ call.actions = <<ToolAction(JStr("mix"), Absent, JNull, Absent), ToolAction(JStr("bake"), Absent, JList(<<JStr("u1")>>), JStr(""))>>
    /\ call.result = <<ToolAction(JStr("bake"), Absent, JList(<<JStr("u1")>>), JStr(""))>>

\* the Actions of the session, as the dicts they were made from
NamesOf(list) == [i \in 1..Len(list) |-> list[i].name]

DictNames(list) == [i \in 1..Len(list) |-> list[i].v.name.v]

\* C28: every dict that validate_action_structure outputs and
\* filter_valid_actions keeps, those normalised to equipment_id = None
\* included, is converted to an Action and appears in session.actions.
C28_KeptDictsMaterialised ==
    call.op = "pipeline" =>
        /\ session.parsing_state = COMPLETED
        /\ NamesOf(session.actions) = DictNames(call.result)

(***************************************************************************)
(* Two sessions of one process running a pass each, in any interleaving.   *)
(* parse_recipe works on objects of its own call.  parse_dependencies      *)
(* builds the sentence context with the pipeline of _get_spacy_model,      *)
(* which caches it in the module global _spacy_nlp: the steps are the test *)
(* "is None", the assignment of the loaded pipeline, add_pipe on the       *)
(* global, the return of the global, and the use of the returned pipeline. *)
(* In this specification session, pc and recipe_text hold one value per    *)
(* session; call holds the global, the pipeline objects and the accesses.  *)
(***************************************************************************)
Sessions == {"A", "B"}

ConcurrentDocs == {<<"w", "350F.", "w", ".">>, <<"w", "350F", ".", "w">>, <<"w", ".", "w", ".">>}

NoPipeline == [loaded |-> FALSE, component |-> FALSE]

InitConcurrent ==
    /\ session = [t \in Sessions |-> RecipeSessionState]
    /\ pc = [t \in Sessions |-> "idle"]
    /\ recipe_text = [t \in Sessions |-> <<>>]
    /\ ui = UiIdle
    /\ uuid_counter = 0
    /\ call = [op |-> "concurrent",
               spacy_nlp |-> "None",
               pipelines |-> [t \in Sessions |-> NoPipeline],
               nlp |-> [t \in Sessions |-> "None"],
               readers |-> {}, writers |-> {}, shared |-> FALSE,
               context |-> [t \in Sessions |-> [built |-> FALSE, component |-> FALSE, sentence_context |-> <<>>]]]

\* the session is inside a pass
Running(t) == pc[t] \notin {"idle", "done", "raised"}

\* t reads _spacy_nlp: shared when a session running at the same time wrote it
ReadBy(t, c) ==
    [c EXCEPT !.readers = @ \cup {t},
              !.shared = @ \/ \E u \in Sessions \ {t} : Running(u) /\ u \in c.writers]

\* t writes _spacy_nlp: shared when a session running at the same time read
\* or wrote it
WrittenBy(t, c) ==
    [c EXCEPT !.writers = @ \cup {t},
              !.shared = @ \/ \E u \in Sessions \ {t} : Running(u) /\ u \in (c.readers \cup c.writers)]

\* state = parse_recipe(recipe_text): no module-level variable is touched
ConcurrentPass1(t) ==
    /\ pc[t] = "idle"
    /\ \E text \in ScenarioTexts :
         session' = [session EXCEPT ![t] = parse_recipe("Whisk the eggs.", ModelEnv("ok", "text", text, ScenarioPayload), 0).state]
    /\ pc' = [pc EXCEPT ![t] = "done"]
    /\ UNCHANGED <<recipe_text, ui, uuid_counter, call>>

\* parse_dependencies(state) reaches _build_sentence_context(state.raw_text)
BeginPass2(t) ==
    /\ pc[t] = "idle"
    /\ \E doc \in ConcurrentDocs : recipe_text' = [recipe_text EXCEPT ![t] = doc]
    /\ pc' = [pc EXCEPT ![t] = "is_none"]
    /\ UNCHANGED <<session, ui, uuid_counter, call>>

\* if _spacy_nlp is None:
TestIsNone(t) ==
    /\ pc[t] = "is_none"
    /\ pc' = [pc EXCEPT ![t] = IF call.spacy_nlp = "None" THEN "load" ELSE "return"]
    /\ call' = ReadBy(t, call)
    /\ UNCHANGED <<session, recipe_text, ui, uuid_counter>>

\* _spacy_nlp = spacy.load(...): a new pipeline object, named after its loader
Load(t) ==
    /\ pc[t] = "load"
    /\ pc' = [pc EXCEPT ![t] = "add_pipe"]
    /\ call' = [WrittenBy(t, call) EXCEPT !.spacy_nlp = t, !.pipelines[t] = [loaded |-> TRUE, component |-> FALSE]]
    /\ UNCHANGED <<session, recipe_text, ui, uuid_counter>>

\* _spacy_nlp.add_pipe("unit_sentence_boundaries", before="parser") on the
\* pipeline the global names now; add_pipe raises ValueError for a name the
\* pipeline already has, and the error leaves parse_dependencies
AddPipe(t) ==
    /\ pc[t] = "add_pipe"
    /\ IF call.pipelines[call.spacy_nlp].component
       THEN /\ pc' = [pc EXCEPT ![t] = "raised"]
            /\ call' = ReadBy(t, call)
       ELSE /\ pc' = [pc EXCEPT ![t] = "return"]
            /\ call' = [ReadBy(t, call) EXCEPT !.pipelines[call.spacy_nlp].component = TRUE]
    /\ UNCHANGED <<session, recipe_text, ui, uuid_counter>>

\* return _spacy_nlp
ReturnNlp(t) ==
    /\ pc[t] = "return"
    /\ pc' = [pc EXCEPT ![t] = "nlp"]
    /\ call' = [ReadBy(t, call) EXCEPT !.nlp[t] = call.spacy_nlp]
    /\ UNCHANGED <<session, recipe_text, ui, uuid_counter>>

\* doc = nlp(raw_text) and the loop over doc.sents, with the components the
\* pipeline has at this moment
BuildContext(t) ==
    /\ pc[t] = "nlp"
    /\ \E maybe \in SUBSET ParserMaySplit(recipe_text[t]) :
         LET component == call.pipelines[call.nlp[t]].component
             preset == IF component THEN unit_sentence_boundaries(recipe_text[t]) ELSE {}
         IN  call' = [call EXCEPT !.context[t] =
                         [built |-> TRUE, component |-> component,
                          sentence_context |-> sentence_context_of(recipe_text[t], preset, maybe).sentence_context]]
    /\ pc' = [pc EXCEPT ![t] = "done"]
    /\ UNCHANGED <<session, recipe_text, ui, uuid_counter>>

NextConcurrent ==
    \E t \in Sessions :
        \/ ConcurrentPass1(t)
        \/ BeginPass2(t)
        \/ TestIsNone(t)
        \/ Load(t)
        \/ AddPipe(t)
        \/ ReturnNlp(t)
        \/ BuildContext(t)

SpecConcurrent == InitConcurrent /\ [][NextConcurrent]_vars

\* the sentence contexts the session gets when it runs alone: those of the
\* pipeline with the component
ContextsAlone(doc) == {build_sentence_context(doc, maybe).sentence_context : maybe \in SUBSET ParserMaySplit(doc)}

\* C26: under every interleaving of two sessions' passes, no variable written
\* during one session's pass is read or written by the other's, and each
\* session gets the result it gets when it runs alone.
C26_NoSharedMutableState ==
    call.op = "concurrent" =>
        /\ ~call.shared
        /\ \A t \in Sessions :
              /\ pc[t] # "raised"
              /\ call.context[t].built => call.context[t].sentence_context \in ContextsAlone(recipe_text[t])

(***************************************************************************)
(* Two runs of one pass in one process, the second with the inputs of the  *)
(* first: the same recipe text and model outcome for parse_recipe, an      *)
(* equal session and the same agent outcome for parse_dependencies.  Each  *)
(* id is a uuid4 draw (core/recipe.py), fresh at every construction.       *)
(***************************************************************************)
\* sessions the second pass can link, with and without actions of an earlier
\* run, and one it cannot
TwoRunSessions ==
    {s \in Pass2Sessions :
        /\ s.parsing_state = INITIAL
        /\ s.ingredients # <<>>
        /\ (s.equipment = <<>>) = (s.basic_actions = <<>>)
        /\ (s.basic_actions = <<>> => s.actions = <<>>)}

NoRun == [op |-> "none", pass |-> 0, first |-> [raised |-> "none", state |-> RecipeSessionState],
          second |-> [raised |-> "none", state |-> RecipeSessionState],
          recipe |-> "", model |-> ModelEnv("ok", "none", <<>>, EmptyObject),
          pre |-> RecipeSessionState, agent |-> AgentEnv("result", AgentResult("other", "-", NoParsed))]

InitTwoRuns ==
    /\ session = RecipeSessionState
    /\ pc = "api"
    /\ recipe_text = ""
    /\ ui = UiIdle
    /\ uuid_counter = 3
    /\ call = NoRun

\* what a run returned or raised
Pass1Outcome(r) == [raised |-> IF r.raised THEN "Exception" ELSE "none", state |-> r.state]

Pass2Outcome(r) == [raised |-> r.raised, state |-> r.state]

\* first = parse_recipe(recipe)
FirstPass1 ==
    /\ call.op = "none"
    /\ \E recipe \in {"Whisk the eggs."}, env \in ModelOutcomes :
         LET r == parse_recipe(recipe, env, uuid_counter)
         IN  /\ session' = r.state
             /\ uuid_counter' = uuid_counter + Len(r.state.ingredients) + Len(r.state.equipment)
             /\ call' = [NoRun EXCEPT !.op = "first", !.pass = 1, !.recipe = recipe, !.model = env,
                                      !.first = Pass1Outcome(r)]
    /\ UNCHANGED <<pc, recipe_text, ui>>

\* second = parse_recipe(recipe), the model answering as before
SecondPass1 ==
    /\ call.op = "first" /\ call.pass = 1
    /\ LET r == parse_recipe(call.recipe, call.model, uuid_counter)
       IN  /\ session' = r.state
           /\ uuid_counter' = uuid_counter + Len(r.state.ingredients) + Len(r.state.equipment)
           /\ call' = [call EXCEPT !.op = "second", !.second = Pass1Outcome(r)]
    /\ UNCHANGED <<pc, recipe_text, ui>>

\* first = parse_dependencies(a session equal to pre)
FirstPass2 ==
    /\ call.op = "none"
    /\ \E pre \in TwoRunSessions, env \in AgentOutcomes :
         LET r == parse_dependencies(pre, env, uuid_counter)
         IN  /\ session' = r.state
             /\ uuid_counter' = uuid_counter + (IF r.state.actions = pre.actions THEN 0 ELSE Len(r.state.actions))
             /\ call' = [NoRun EXCEPT !.op = "first", !.pass = 2, !.pre = pre, !.agent = env,
                                      !.first = Pass2Outcome(r)]
    /\ UNCHANGED <<pc, recipe_text, ui>>

\* second = parse_dependencies(another session equal to pre), the agent
\* answering as before
SecondPass2 ==
    /\ call.op = "first" /\ call.pass = 2
    /\ LET r == parse_dependencies(call.pre, call.agent, uuid_counter)
       IN  /\ session' = r.state
           /\ uuid_counter' = uuid_counter + (IF r.state.actions = call.pre.actions THEN 0 ELSE Len(r.state.actions))
           /\ call' = [call EXCEPT !.op = "second", !.second = Pass2Outcome(r)]
    /\ UNCHANGED <<pc, recipe_text, ui>>

NextTwoRuns == FirstPass1 \/ SecondPass1 \/ FirstPass2 \/ SecondPass2

SpecTwoRuns == InitTwoRuns /\ [][NextTwoRuns]_vars

\* a list of entities with the id field blanked
WithoutIds(list) == [i \in 1..Len(list) |-> [list[i] EXCEPT !.id = ""]]

\* an outcome with the ids its entities were given blanked
OutcomeWithoutIds(o) ==
    [o EXCEPT !.state.ingredients = WithoutIds(@), !.state.equipment = WithoutIds(@), !.state.actions = WithoutIds(@)]

\* the ids a run drew: of all entities after Pass 1, of the actions it stored
\* after Pass 2
IdsOf(list) == {list[i].id : i \in 1..Len(list)}

DrawnIds(o) ==
    IF call.pass = 1 THEN IdsOf(o.state.ingredients) \cup IdsOf(o.state.equipment)
    ELSE IF o.state.actions = call.pre.actions THEN {}
    ELSE IdsOf(o.state.actions)

get_button_text(parsing_state) ==
    CASE parsing_state = INITIAL -> "Parse Recipe"
      [] parsing_state = PARSING_RECIPE -> "Parsing..."
      [] parsing_state = PARSING_DEPENDENCIES -> "Parsing Dependencies..."
      [] parsing_state = DEPENDENCIES_ERROR -> "Retry Parsing"
      [] parsing_state = COMPLETED -> "Parse Recipe"
      [] OTHER -> "Parse Recipe"

\* mutant: the insights button looks at parsing_state alone
insights_when_completed(state) == state.parsing_state = COMPLETED

\* get_insights_button_state(state)
get_insights_button_state(state) == state.parsing_state = COMPLETED /\ Len(state.actions) > 0

\* the outputs of one yield: button text, and whether the parse button, the
\* visualize button and the insights tab button are interactive
Outputs(text, parse, visualize, insights) == [button_text |-> text, parse_interactive |-> parse, visualize_interactive |-> visualize, insights_interactive |-> insights]

\* what the model answers in the UI flow: no client, a thrown call, None,
\* prose, and objects with all, some or none of the entity kinds
UiPayloads ==
    { RecipeObject(JList(<<FlourItem, SaltItem>>), JList(<<BowlItem>>), JList(<<MixItem>>)),
      RecipeObject(JList(<<FlourItem>>), Absent, JList(<<MixItem>>)),
      RecipeObject(Absent, JList(<<BowlItem>>), JList(<<MixItem>>)),
      RecipeObject(JList(<<FlourItem>>), JList(<<BowlItem>>), Absent),
      RecipeObject(JList(<<NullNameItem>>), JList(<<BowlItem>>), JList(<<MixItem>>)),
      EmptyObject }

UiModelOutcomes ==
    {ModelEnv("fails", "none", <<>>, EmptyObject), ModelEnv("ok", "throws", <<>>, EmptyObject),
     ModelEnv("ok", "none", <<>>, EmptyObject), ModelEnv("ok", "text", <<"x">>, EmptyObject)}
    \cup {ModelEnv("ok", "text", <<"x", "fence_json", "{", "J", "}", "fence">>, pl) : pl \in UiPayloads}

\* what the agent does in the UI flow
UiAgentResults ==
    { AgentResult("dict", "-", [actions |-> JList(<<ActionItem(JStr("mix"), JList(<<JStr("u1")>>), JStr("u2"))>>)]),
      AgentResult("dict", "-", [actions |-> JList(<<ActionItem(JStr("mix"), JList(<<>>), JStr(""))>>)]),
      AgentResult("dict", "-", [actions |-> JList(<<>>)]),
      AgentResult("dict", "-", [actions |-> JNull]),
      AgentResult("RunResult", "invalid_json", NoParsed),
      AgentResult("AgentText", "json", [actions |-> JList(<<ActionItem(JStr("mix"), JList(<<JStr("u1")>>), JNull)>>)]),
      AgentResult("AgentText", "no_json", NoParsed) }

UiAgentOutcomes ==
    {AgentEnv(k, AgentResult("other", "-", NoParsed)) : k \in {"construct_fails", "context_fails", "run_throws"}}
    \cup {AgentEnv("result", r) : r \in UiAgentResults}

\* the record of the running or last click: the flow it took, the session and
\* parsing_state it started from, what Pass 1 returned, how Pass 2 ended
\* (the kind of its environment, "not_run" before), whether Pass 2 raised,
\* whether the click before it was a retry that failed, and the click count
NoClick == [flow |-> "none", started_in |-> INITIAL, pre |-> RecipeSessionState, text |-> "",
            pass1 |-> "not_run", pass1_state |-> RecipeSessionState,
            pass2 |-> "not_run", pass2_raised |-> FALSE, after_failed_retry |-> FALSE, clicks |-> 0]

Init ==
    /\ session = RecipeSessionState
    /\ pc = "idle"
    /\ recipe_text = ""
    /\ ui = UiIdle
    /\ uuid_counter = 0
    /\ call = NoClick

FailedRetry == call.flow = "retry" /\ (call.pass2_raised \/ call.pass2 # "result")

\* combined_parse_function lines 121-138: a click in any state but
\* DEPENDENCIES_ERROR clears the session and shows "Parsing..."
ClickParse ==
    /\ pc = "idle"
    /\ ui.parse_interactive
    /\ call.clicks < MaxClicks
    /\ session.parsing_state # DEPENDENCIES_ERROR
    /\ \E text \in Recipes :
         /\ recipe_text' = text
         /\ session' = [clear(session) EXCEPT !.raw_text = text, !.parsing_state = PARSING_RECIPE]
         /\ call' = [NoClick EXCEPT !.flow = "combined", !.started_in = session.parsing_state, !.pre = session,
                                    !.text = text, !.after_failed_retry = FailedRetry, !.clicks = call.clicks + 1]
    /\ ui' = Outputs("Parsing...", FALSE, FALSE, FALSE)
    /\ pc' = "parsing_recipe"
    /\ UNCHANGED uuid_counter

\* combined_parse_function lines 116-119 and retry_dependency_parsing lines
\* 251-269: a click in DEPENDENCIES_ERROR starts the retry
ClickRetry ==
    /\ pc = "idle"
    /\ ui.parse_interactive
    /\ call.clicks < MaxClicks
    /\ session.parsing_state = DEPENDENCIES_ERROR
    /\ \E text \in Recipes :
         /\ recipe_text' = text
         /\ call' = [NoClick EXCEPT !.flow = "retry", !.started_in = session.parsing_state, !.pre = session,
                                    !.text = text, !.after_failed_retry = FailedRetry, !.clicks = call.clicks + 1]
    /\ session' = [session EXCEPT !.parsing_state = PARSING_DEPENDENCIES]
    /\ ui' = Outputs("Parsing Dependencies...", FALSE, FALSE, FALSE)
    /\ pc' = "retrying"
    /\ UNCHANGED uuid_counter

\* combined_parse_function lines 140-183 and 231-247: Pass 1 and the yield after it
RunPass1 ==
    /\ pc = "parsing_recipe"
    /\ \E env \in UiModelOutcomes :
         LET r == parse_recipe(recipe_text, env, uuid_counter)
             updated_state == [r.state EXCEPT !.parsing_state = PARSING_RECIPE]
             has_basic_data == has_parsed_data(updated_state)
             has_basic_actions == Len(updated_state.basic_actions) > 0
         IN  /\ uuid_counter' = uuid_counter + Len(r.state.ingredients) + Len(r.state.equipment)
             /\ call' = [call EXCEPT !.pass1 = (IF r.raised THEN "raised" ELSE "returned"), !.pass1_state = r.state]
             /\ IF r.raised
                THEN /\ session' = [session EXCEPT !.parsing_state = INITIAL]
                     /\ ui' = Outputs(get_button_text(INITIAL), TRUE, FALSE, FALSE)
                     /\ pc' = "idle"
                ELSE IF ~(has_basic_data /\ has_basic_actions)
                THEN /\ session' = [updated_state EXCEPT !.parsing_state = INITIAL]
                     /\ ui' = Outputs(get_button_text(INITIAL), TRUE, FALSE, FALSE)
                     /\ pc' = "idle"
                ELSE /\ session' = [updated_state EXCEPT !.parsing_state = PARSING_DEPENDENCIES]
                     /\ ui' = Outputs("Parsing Dependencies...", FALSE, FALSE, FALSE)
                     /\ pc' = "parsing_dependencies"
    /\ UNCHANGED recipe_text

\* combined_parse_function lines 185-229: the session after parse_dependencies
\* returned or raised
after_pass2(r) ==
    IF r.raised # "none" THEN [r.state EXCEPT !.parsing_state = DEPENDENCIES_ERROR]
    ELSE [r.state EXCEPT !.parsing_state = COMPLETED]

\* mutant: the retry hands back a session without the entities of Pass 1
after_retry_drops_entities(r) ==
    IF r.raised # "none" THEN r.state
    ELSE [r.state EXCEPT !.ingredients = <<>>, !.equipment = <<>>, !.basic_actions = <<>>, !.parsing_state = COMPLETED]

\* retry_dependency_parsing lines 271-321: the session after parse_dependencies
\* returned or raised
after_retry(r) ==
    IF r.raised # "none" THEN r.state
    ELSE [r.state EXCEPT !.parsing_state = COMPLETED]

\* the last yield of either handler
FinalOutputs(final_state, raised) ==
    IF raised THEN Outputs(get_button_text(final_state.parsing_state), TRUE, FALSE, FALSE)
    ELSE Outputs(get_button_text(final_state.parsing_state), TRUE, Len(final_state.actions) > 0,
                 get_insights_button_state(final_state))

\* combined_parse_function lines 185-229: Pass 2 and the last yield
RunPass2 ==
    /\ pc = "parsing_dependencies"
    /\ \E env \in UiAgentOutcomes :
         LET r == parse_dependencies(session, env, uuid_counter)
         IN  /\ session' = after_pass2(r)
             /\ ui' = FinalOutputs(after_pass2(r), r.raised # "none")
             /\ call' = [call EXCEPT !.pass2 = env.kind, !.pass2_raised = (r.raised # "none")]
             /\ uuid_counter' = uuid_counter + (IF r.state.parsing_state = COMPLETED THEN Len(r.state.actions) ELSE 0)
    /\ pc' = "idle"
    /\ UNCHANGED recipe_text

\* retry_dependency_parsing lines 271-321: Pass 2 again and the last yield
RunRetry ==
    /\ pc = "retrying"
    /\ \E env \in UiAgentOutcomes :
         LET r == parse_dependencies(session, env, uuid_counter)
         IN  /\ session' = after_retry(r)
             /\ ui' = FinalOutputs(after_retry(r), r.raised # "none")
             /\ call' = [call EXCEPT !.pass2 = env.kind, !.pass2_raised = (r.raised # "none")]
             /\ uuid_counter' = uuid_counter + (IF r.state.parsing_state = COMPLETED THEN Len(r.state.actions) ELSE 0)
    /\ pc' = "idle"
    /\ UNCHANGED recipe_text

Next == ClickParse \/ ClickRetry \/ RunPass1 \/ RunPass2 \/ RunRetry

Spec == Init /\ [][Next]_vars

\* the entities the session holds
Entities(s) == <<s.ingredients, s.equipment, s.basic_actions>>

\* C1: in the combined flow, when Pass 1 gave usable entities and Pass 2 fails
\* (the agent cannot be constructed, or the agent run throws), the session handed
\* back is in DEPENDENCIES_ERROR and holds the entities of Pass 1.
C1_Pass2FailureGivesDependenciesError ==
    (pc = "idle" /\ call.flow = "combined" /\ call.pass2 \in {"construct_fails", "run_throws"})
        => /\ session.parsing_state = DEPENDENCIES_ERROR
           /\ Entities(session) = Entities(call.pass1_state)

\* C2: a click in DEPENDENCIES_ERROR runs Pass 2 only, leaves raw_text and the
\* entities alone and ends in COMPLETED or DEPENDENCIES_ERROR; and the click
\* after a failed retry is again such a retry.
C2_RetryLoop ==
    pc = "idle" =>
        /\ call.started_in = DEPENDENCIES_ERROR
              => /\ call.flow = "retry" /\ call.pass1 = "not_run"
                 /\ Entities(session) = Entities(call.pre) /\ session.raw_text = call.pre.raw_text
                 /\ session.parsing_state \in {COMPLETED, DEPENDENCIES_ERROR}
        /\ call.after_failed_retry => (call.flow = "retry" /\ call.pass1 = "not_run")

\* the state handed back by the yield that follows Pass 1 of the combined flow
AfterPass1 == call.flow = "combined" /\ call.pass1 = "returned" /\ call.pass2 = "not_run" /\ pc # "parsing_recipe"

BackToInitial == pc = "idle" /\ session.parsing_state = INITIAL

Proceeds == pc = "parsing_dependencies" /\ session.parsing_state = PARSING_DEPENDENCIES

\* C14 as stated: the flow goes back to INITIAL exactly when the entities of
\* Pass 1 fail the precondition of Pass 2, and proceeds otherwise.
C14_InitialIffNotLinkable ==
    AfterPass1 =>
        /\ BackToInitial <=> ~Linkable(call.pass1_state)
        /\ Proceeds <=> Linkable(call.pass1_state)

\* all three entity lists are non-empty
AllKinds(s) == Len(s.ingredients) > 0 /\ Len(s.equipment) > 0 /\ Len(s.basic_actions) > 0

\* C14 (amended): the flow goes back to INITIAL, without Pass 2 being started,
\* exactly when one of ingredients, equipment and basic_actions of Pass 1 is
\* empty; it proceeds to PARSING_DEPENDENCIES exactly when all three are
\* non-empty.
C14_InitialIffAnyKindEmpty ==
    AfterPass1 =>
        /\ BackToInitial <=> ~AllKinds(call.pass1_state)
        /\ Proceeds <=> AllKinds(call.pass1_state)
        /\ Entities(session) = Entities(call.pass1_state)

\* Pass 1 gave ingredients and basic actions but no equipment: Pass 2 would
\* accept them, the flow is back at INITIAL
C14_Witness ==
    /\ AfterPass1
    /\ Len(call.pass1_state.ingredients) > 0
    /\ Len(call.pass1_state.basic_actions) > 0
    /\ call.pass1_state.equipment = <<>>
    /\ BackToInitial

\* the handler has finished and left the session in COMPLETED
FinishedCompleted == pc = "idle" /\ call.flow # "none" /\ session.parsing_state = COMPLETED

\* the session holds the text of this click and what Pass 1 made of that
\* text, on this click or on the click the retry continues
FromSubmittedText ==
    /\ session.raw_text = call.text
    /\ IF call.flow = "retry" THEN Entities(session) = Entities(call.pre)
       ELSE call.pass1 = "returned" /\ Entities(session) = Entities(call.pass1_state)

\* C29 as stated: whenever the parse-button handler is invoked with text T on
\* a session in any reachable state and finishes in COMPLETED, raw_text is T
\* and the entities are those Pass 1 derived from T.
C29_CompletedFromSubmittedText ==
    FinishedCompleted => FromSubmittedText

\* C29 (amended): a handler invoked with text T that finishes in COMPLETED
\* holds T and the entities derived from T when the session was not in
\* DEPENDENCIES_ERROR at the click; when it was, the handler ignores T and
\* the session keeps the raw_text and the entities it had before the click.
C29_CompletedFromSubmittedTextUnlessRetry ==
    FinishedCompleted =>
        /\ call.started_in # DEPENDENCIES_ERROR => (call.flow = "combined" /\ FromSubmittedText)
        /\ call.started_in = DEPENDENCIES_ERROR =>
              /\ call.flow = "retry" /\ call.pass1 = "not_run"
              /\ session.raw_text = call.pre.raw_text
              /\ Entities(session) = Entities(call.pre)

\* a retry finished in COMPLETED on a click that submitted another text than
\* the one the session holds
C29_Witness ==
    /\ FinishedCompleted
    /\ call.flow = "retry"
    /\ call.text # session.raw_text
    /\ Len(session.actions) > 0

====
